---- MODULE Spec2Model ----
(***************************************************************************)
(* Model of the OAuth session manager of Zoom-Alert (oauth.go): the CSRF   *)
(* state table (GenerateState / ValidateState / cleanupExpiredStates), the *)
(* user token record (ExchangeCodeForToken / GetUserAccessToken /          *)
(* refreshUserToken) and its persistence (SaveTokens / LoadTokens /        *)
(* NewOAuthService).                                                       *)
(*                                                                         *)
(* Time is counted in whole seconds.  A handler runs within one instant of *)
(* that clock: every time.Now() it reads returns `now`.  time.Now() carries*)
(* a monotonic reading, so the clock never goes backwards.                 *)
(***************************************************************************)
EXTENDS Integers, FiniteSets, Sequences, TLC

(* ---------------------------------------------------------------------- *)
(* Program constants                                                        *)
(* ---------------------------------------------------------------------- *)

\* 10 * time.Minute, in seconds (GenerateState)
StateTTL == 600

\* the safety margin subtracted from expires_in, in seconds
ExpiryMargin == 60

(* ---------------------------------------------------------------------- *)
(* Bounds of the model                                                      *)
(* ---------------------------------------------------------------------- *)

\* how many times the clock advances in one behaviour
MaxTicks == 3

\* how many requests reach the token endpoint in one behaviour
MaxNet == 2

\* how many state tokens one manager draws from its random source
MaxStates == 2

\* the lifetime a well-behaved authorization server announces (expires_in)
HourExpiresIn == 3600

\* the amounts by which the clock advances between two calls
StateSteps == {1, StateTTL - 1}
TokenSteps == {1, HourExpiresIn - ExpiryMargin}

\* state tokens: the i-th value produced by rand.Read is token i.  256 random
\* bits do not repeat, so GenerateState never returns a value it returned before.
StateTokens == 1..MaxStates

\* the zero time.Time (year 1), before every instant the clock shows
ZeroTime == 0 - ExpiryMargin - 1

\* expires_in values of a token response: no longer than the margin, or an hour
ExpiresInValues == {ExpiryMargin, HourExpiresIn}

AccessTokens == {"X", "Y"}
RefreshTokens == {"RX"}

\* what the token endpoint can answer: a transport error, a non-200 status, a
\* body that is not JSON, or a 200 with a tokenResponse (fields may be empty)
NoBody == [kind |-> "none", access |-> "", refresh |-> "", expires_in |-> 0]

NetOutcomes ==
    { [kind |-> k, access |-> "", refresh |-> "", expires_in |-> 0] :
          k \in {"neterr", "status", "badjson"} }
    \cup
    [kind : {"ok"}, access : AccessTokens \cup {""},
     refresh : RefreshTokens \cup {""}, expires_in : ExpiresInValues]

\* what SaveTokens' file system calls can do: succeed, fail before the file
\* is touched (MkdirAll, open), or fail after os.WriteFile truncated it
SaveOutcomes == {"ok", "fail", "failtrunc"}

NoFile == [kind |-> "absent", AccessToken |-> "", RefreshToken |-> "", ExpiresAt |-> ZeroTime]
CorruptFile == [kind |-> "corrupt", AccessToken |-> "", RefreshToken |-> "", ExpiresAt |-> ZeroTime]

VARIABLES
    now,               \* the clock (seconds)
    ticks,             \* how often the clock advanced
    netCalls,          \* how many requests were sent to the token endpoint
    creds,             \* config.ZoomClientID / ZoomClientSecret: [id, secret]
    stateStore,        \* OAuthService.stateStore: token -> StateInfo
    userAccessToken,   \* OAuthService.userAccessToken
    userRefreshToken,  \* OAuthService.userRefreshToken
    userExpiresAt,     \* OAuthService.userExpiresAt
    tokenFile,         \* the file at tokenFilePath
    issuedAt,          \* history: token -> instant GenerateState returned it
    consumed,          \* history: tokens ValidateState accepted
    lastExch,          \* history: the last successful code exchange
    lastOp,            \* history: the last call and what it returned
    pc,                \* concurrent callers: where each one stands in its call
    loc                \* concurrent callers: each one's local variables

vars == <<now, ticks, netCalls, creds, stateStore, userAccessToken, userRefreshToken,
          userExpiresAt, tokenFile, issuedAt, consumed, lastExch, lastOp, pc, loc>>

tableVars == <<stateStore, issuedAt, consumed>>
tokenVars == <<userAccessToken, userRefreshToken, userExpiresAt, tokenFile, lastExch>>
envVars == <<now, ticks, creds, pc, loc>>

NoOp == [op |-> "none", st |-> 0, code |-> "", ok |-> TRUE, err |-> "",
         val |-> "", net |-> 0, resp |-> NoBody, save |-> "none",
         auth |-> "none", lookup |-> 0, post |-> 0]

NoExch == [t0 |-> ZeroTime, access |-> "", refresh |-> "", expires_in |-> 0]

EmptyStore == [s \in {} |-> 0]

\* the goroutines that call into one OAuthService at the same time
Callers == {"c1", "c2"}

\* a caller's locals: the call it runs, the decoded tokenResp, the TokenStore
\* value SaveTokens builds, and what the call returned
NoLocals == [op |-> "none", out |-> NoBody, store |-> NoFile, err |-> "", val |-> ""]

(* ---------------------------------------------------------------------- *)
(* time.Time comparisons                                                    *)
(* ---------------------------------------------------------------------- *)

\* a comparison that still accepts an entry one second past its expiry
After_Late(t, u) == t > u + 1

\* a comparison that already holds at the instant itself
After_OrAt(t, u) == t >= u

\* t.After(u)
After(t, u) == t > u

\* t.Before(u)
Before(t, u) == t < u

(* ---------------------------------------------------------------------- *)
(* The CSRF state table                                                     *)
(* ---------------------------------------------------------------------- *)

\* a sweep that removes nothing
cleanupExpiredStates_Nothing(store, t) == store

\* a sweep that compares the creation instant instead of the expiry
cleanupExpiredStates_ByCreation(store, t) ==
    [s \in {x \in DOMAIN store : ~After(t, store[x].CreatedAt)} |-> store[s]]

\* cleanupExpiredStates: the table without the entries now is after
cleanupExpiredStates(store, t) ==
    [s \in {x \in DOMAIN store : ~After(t, store[x].ExpiresAt)} |-> store[s]]

\* a delete that clears the whole map
Delete_All(store, s) == [x \in {} |-> store[x]]

\* delete(o.stateStore, state)
Delete(store, s) == [x \in DOMAIN store \ {s} |-> store[x]]

\* GenerateState: sweep, then store the new token for 10 minutes
GenerateState ==
    \E s \in StateTokens \ DOMAIN issuedAt :
        /\ stateStore' =
               [x \in DOMAIN cleanupExpiredStates(stateStore, now) \cup {s} |->
                   IF x = s
                   THEN [CreatedAt |-> now, ExpiresAt |-> now + StateTTL]
                   ELSE cleanupExpiredStates(stateStore, now)[x]]
        /\ issuedAt' = [x \in DOMAIN issuedAt \cup {s} |->
                           IF x = s THEN now ELSE issuedAt[x]]
        /\ lastOp' = [NoOp EXCEPT !.op = "GenerateState", !.st = s]
        /\ UNCHANGED <<envVars, netCalls, consumed, tokenVars>>

\* ValidateState("") : rejected before the lock is taken
ValidateStateEmpty ==
    /\ lastOp' = [NoOp EXCEPT !.op = "ValidateState", !.ok = FALSE,
                              !.err = "state parameter is required"]
    /\ UNCHANGED <<envVars, netCalls, tableVars, tokenVars>>

\* a validation that forgets to consume the token it accepts
ValidateState_NoConsume(s) ==
    LET swept == cleanupExpiredStates(stateStore, now) IN
    /\ IF s \notin DOMAIN swept
       THEN /\ stateStore' = swept
            /\ consumed' = consumed
            /\ lastOp' = [NoOp EXCEPT !.op = "ValidateState", !.st = s, !.ok = FALSE,
                                      !.err = "invalid or expired state parameter"]
       ELSE IF After(now, swept[s].ExpiresAt)
       THEN /\ stateStore' = Delete(swept, s)
            /\ consumed' = consumed
            /\ lastOp' = [NoOp EXCEPT !.op = "ValidateState", !.st = s, !.ok = FALSE,
                                      !.err = "state parameter has expired"]
       ELSE /\ stateStore' = swept
            /\ consumed' = consumed \cup {s}
            /\ lastOp' = [NoOp EXCEPT !.op = "ValidateState", !.st = s]
    /\ UNCHANGED <<envVars, netCalls, issuedAt, tokenVars>>

\* a validation that does not sweep and leaves an expired entry where it is
ValidateState_KeepExpired(s) ==
    /\ IF s \notin DOMAIN stateStore
       THEN /\ stateStore' = stateStore
            /\ consumed' = consumed
            /\ lastOp' = [NoOp EXCEPT !.op = "ValidateState", !.st = s, !.ok = FALSE,
                                      !.err = "invalid or expired state parameter"]
       ELSE IF After(now, stateStore[s].ExpiresAt)
       THEN /\ stateStore' = stateStore
            /\ consumed' = consumed
            /\ lastOp' = [NoOp EXCEPT !.op = "ValidateState", !.st = s, !.ok = FALSE,
                                      !.err = "state parameter has expired"]
       ELSE /\ stateStore' = Delete(stateStore, s)
            /\ consumed' = consumed \cup {s}
            /\ lastOp' = [NoOp EXCEPT !.op = "ValidateState", !.st = s]
    /\ UNCHANGED <<envVars, netCalls, issuedAt, tokenVars>>

\* ValidateState(s) for a non-empty s: sweep, look up, check expiry, delete
ValidateState(s) ==
    LET swept == cleanupExpiredStates(stateStore, now) IN
    /\ IF s \notin DOMAIN swept
       THEN /\ stateStore' = swept
            /\ consumed' = consumed
            /\ lastOp' = [NoOp EXCEPT !.op = "ValidateState", !.st = s, !.ok = FALSE,
                                      !.err = "invalid or expired state parameter"]
       ELSE IF After(now, swept[s].ExpiresAt)
       THEN /\ stateStore' = Delete(swept, s)
            /\ consumed' = consumed
            /\ lastOp' = [NoOp EXCEPT !.op = "ValidateState", !.st = s, !.ok = FALSE,
                                      !.err = "state parameter has expired"]
       ELSE /\ stateStore' = Delete(swept, s)
            /\ consumed' = consumed \cup {s}
            /\ lastOp' = [NoOp EXCEPT !.op = "ValidateState", !.st = s]
    /\ UNCHANGED <<envVars, netCalls, issuedAt, tokenVars>>

(* ---------------------------------------------------------------------- *)
(* Token persistence                                                        *)
(* ---------------------------------------------------------------------- *)

\* the TokenStore document json.Marshal writes.  Token strings come out of
\* json.Unmarshal and are valid UTF-8, and time.Time is written as RFC 3339
\* with nanoseconds, so the three fields are read back as they were written.
TokenStore(a, r, e) ==
    [kind |-> "tokens", AccessToken |-> a, RefreshToken |-> r, ExpiresAt |-> e]

\* a save that reports what the file system did but never writes the file
SaveTokens_KeepOld(file, a, r, e, sv) ==
    CASE sv = "failtrunc" -> CorruptFile
      [] OTHER -> file

\* SaveTokens: the file after the call
SaveTokens(file, a, r, e, sv) ==
    CASE sv = "ok" -> TokenStore(a, r, e)
      [] sv = "fail" -> file
      [] OTHER -> CorruptFile

\* SaveTokens' error: nil exactly when the file was written
SaveErr(sv) == IF sv = "ok" THEN "" ELSE "failed to write token file"

\* LoadTokens error: a file that cannot be read or parsed
LoadErr(file, readOk) ==
    CASE file.kind = "absent" -> ""
      [] ~readOk -> "failed to read token file"
      [] file.kind = "corrupt" -> "failed to unmarshal tokens"
      [] OTHER -> ""

\* a load that adopts the stored tokens whatever their expiry
LoadTokens_AdoptExpired(file, readOk, t, cur) ==
    IF file.kind = "tokens" /\ readOk
    THEN [a |-> file.AccessToken, r |-> file.RefreshToken, e |-> file.ExpiresAt]
    ELSE cur

\* a load that adopts the stored tokens but forgets the refresh token
LoadTokens_DropRefresh(file, readOk, t, cur) ==
    IF file.kind = "tokens" /\ readOk /\ Before(t, file.ExpiresAt)
    THEN [a |-> file.AccessToken, r |-> "", e |-> file.ExpiresAt]
    ELSE cur

\* LoadTokens: the token fields after the call (cur: the fields before it)
LoadTokens(file, readOk, t, cur) ==
    IF file.kind = "tokens" /\ readOk /\ Before(t, file.ExpiresAt)
    THEN [a |-> file.AccessToken, r |-> file.RefreshToken, e |-> file.ExpiresAt]
    ELSE cur

\* the fields of a freshly allocated OAuthService
ZeroRecord == [a |-> "", r |-> "", e |-> ZeroTime]

\* a construction that gives up when the token file cannot be loaded
NewOAuthService_FailOnLoadError(readOk) ==
    LET rec == LoadTokens(tokenFile, readOk, now, ZeroRecord) IN
    /\ stateStore' = EmptyStore
    /\ issuedAt' = EmptyStore
    /\ consumed' = {}
    /\ userAccessToken' = rec.a
    /\ userRefreshToken' = rec.r
    /\ userExpiresAt' = rec.e
    /\ lastExch' = NoExch
    /\ lastOp' = [NoOp EXCEPT !.op = "NewOAuthService",
                              !.ok = (LoadErr(tokenFile, readOk) = ""),
                              !.err = LoadErr(tokenFile, readOk)]
    /\ UNCHANGED <<envVars, netCalls, tokenFile>>

\* NewOAuthService on the same token file path: a new manager with an empty
\* state table, which loads the file and only warns when that fails
NewOAuthService(readOk) ==
    LET rec == LoadTokens(tokenFile, readOk, now, ZeroRecord) IN
    /\ stateStore' = EmptyStore
    /\ issuedAt' = EmptyStore
    /\ consumed' = {}
    /\ userAccessToken' = rec.a
    /\ userRefreshToken' = rec.r
    /\ userExpiresAt' = rec.e
    /\ lastExch' = NoExch
    /\ lastOp' = [NoOp EXCEPT !.op = "NewOAuthService",
                              !.err = LoadErr(tokenFile, readOk)]
    /\ UNCHANGED <<envVars, netCalls, tokenFile>>

\* a direct call of the exported SaveTokens
SaveTokensCall(sv) ==
    /\ tokenFile' = SaveTokens(tokenFile, userAccessToken, userRefreshToken,
                               userExpiresAt, sv)
    /\ lastOp' = [NoOp EXCEPT !.op = "SaveTokens", !.ok = (sv = "ok"),
                              !.err = SaveErr(sv), !.save = sv]
    /\ UNCHANGED <<envVars, netCalls, tableVars, userAccessToken,
                   userRefreshToken, userExpiresAt, lastExch>>

(* ---------------------------------------------------------------------- *)
(* The user token record                                                    *)
(* ---------------------------------------------------------------------- *)

\* an expiry computed without the safety margin
ExpiryOf_NoMargin(t, expires_in) == t + expires_in

\* time.Now().Add(time.Duration(tokenResp.ExpiresIn-60) * time.Second)
ExpiryOf(t, expires_in) == t + (expires_in - ExpiryMargin)

\* an exchange that accepts a response without an access token
ExchangeErr_AcceptEmpty(out) ==
    CASE out.kind = "neterr" -> "failed to execute token exchange request"
      [] out.kind = "status" -> "OAuth code exchange failed with status"
      [] out.kind = "badjson" -> "failed to decode token response"
      [] OTHER -> ""

\* the error a token response makes the exchange return ("" for none)
ExchangeErr(out) ==
    CASE out.kind = "neterr" -> "failed to execute token exchange request"
      [] out.kind = "status" -> "OAuth code exchange failed with status"
      [] out.kind = "badjson" -> "failed to decode token response"
      [] out.access = "" -> "no access token received in response"
      [] OTHER -> ""

\* an exchange that keeps the held refresh token when the response has none
ExchangeCodeForToken_KeepRefresh(code, out, sv) ==
    LET newRefresh == IF out.refresh # "" THEN out.refresh ELSE userRefreshToken IN
    /\ IF code = ""
       THEN /\ lastOp' = [NoOp EXCEPT !.op = "ExchangeCodeForToken", !.ok = FALSE,
                                      !.err = "authorization code is required"]
            /\ UNCHANGED <<netCalls, tokenVars>>
       ELSE IF ExchangeErr(out) # ""
       THEN /\ netCalls < MaxNet
            /\ netCalls' = netCalls + 1
            /\ lastOp' = [NoOp EXCEPT !.op = "ExchangeCodeForToken", !.code = code,
                                      !.ok = FALSE, !.err = ExchangeErr(out),
                                      !.net = 1, !.resp = out]
            /\ UNCHANGED tokenVars
       ELSE /\ netCalls < MaxNet
            /\ netCalls' = netCalls + 1
            /\ userAccessToken' = out.access
            /\ userRefreshToken' = newRefresh
            /\ userExpiresAt' = ExpiryOf(now, out.expires_in)
            /\ tokenFile' = SaveTokens(tokenFile, out.access, newRefresh,
                                       ExpiryOf(now, out.expires_in), sv)
            /\ lastExch' = [t0 |-> now, access |-> out.access,
                            refresh |-> out.refresh, expires_in |-> out.expires_in]
            /\ lastOp' = [NoOp EXCEPT !.op = "ExchangeCodeForToken", !.code = code,
                                      !.net = 1, !.resp = out, !.save = sv]
    /\ UNCHANGED <<envVars, tableVars>>

\* an exchange that sends the request without looking at the code
ExchangeCodeForToken_NoCodeCheck(code, out, sv) ==
    /\ netCalls < MaxNet
    /\ netCalls' = netCalls + 1
    /\ lastOp' = [NoOp EXCEPT !.op = "ExchangeCodeForToken", !.code = code,
                              !.ok = FALSE, !.err = "OAuth code exchange failed with status",
                              !.net = 1, !.resp = out]
    /\ UNCHANGED <<envVars, tableVars, tokenVars>>

\* ExchangeCodeForToken(code): out is the token endpoint's answer, sv what
\* the file system does to the save that follows a success
ExchangeCodeForToken(code, out, sv) ==
    /\ IF code = ""
       THEN /\ lastOp' = [NoOp EXCEPT !.op = "ExchangeCodeForToken", !.ok = FALSE,
                                      !.err = "authorization code is required"]
            /\ UNCHANGED <<netCalls, tokenVars>>
       ELSE IF ExchangeErr(out) # ""
       THEN /\ netCalls < MaxNet
            /\ netCalls' = netCalls + 1
            /\ lastOp' = [NoOp EXCEPT !.op = "ExchangeCodeForToken", !.code = code,
                                      !.ok = FALSE, !.err = ExchangeErr(out),
                                      !.net = 1, !.resp = out]
            /\ UNCHANGED tokenVars
       ELSE /\ netCalls < MaxNet
            /\ netCalls' = netCalls + 1
            /\ userAccessToken' = out.access
            /\ userRefreshToken' = out.refresh
            /\ userExpiresAt' = ExpiryOf(now, out.expires_in)
            /\ tokenFile' = SaveTokens(tokenFile, out.access, out.refresh,
                                       ExpiryOf(now, out.expires_in), sv)
            /\ lastExch' = [t0 |-> now, access |-> out.access,
                            refresh |-> out.refresh, expires_in |-> out.expires_in]
            /\ lastOp' = [NoOp EXCEPT !.op = "ExchangeCodeForToken", !.code = code,
                                      !.net = 1, !.resp = out, !.save = sv]
    /\ UNCHANGED <<envVars, tableVars>>

\* a refresh that does not look at the response's status
RefreshErr_IgnoreStatus(out) ==
    CASE out.kind = "neterr" -> "failed to execute request"
      [] out.kind = "badjson" -> "failed to decode response"
      [] OTHER -> ""

\* the error a token response makes the refresh return ("" for none)
RefreshErr(out) ==
    CASE out.kind = "neterr" -> "failed to execute request"
      [] out.kind = "status" -> "OAuth token refresh failed with status"
      [] out.kind = "badjson" -> "failed to decode response"
      [] OTHER -> ""

\* a refresh that gives up its refresh token when the request fails
refreshUserToken_DropOnFailure(op, out, sv) ==
    /\ netCalls < MaxNet
    /\ netCalls' = netCalls + 1
    /\ IF RefreshErr(out) # ""
       THEN /\ lastOp' = [NoOp EXCEPT !.op = op, !.ok = FALSE, !.err = RefreshErr(out),
                                      !.net = 1, !.resp = out]
            /\ userRefreshToken' = ""
            /\ UNCHANGED <<userAccessToken, userExpiresAt, tokenFile, lastExch>>
       ELSE LET newRefresh == IF out.refresh # "" THEN out.refresh ELSE userRefreshToken IN
            /\ userAccessToken' = out.access
            /\ userRefreshToken' = newRefresh
            /\ userExpiresAt' = ExpiryOf(now, out.expires_in)
            /\ tokenFile' = SaveTokens(tokenFile, out.access, newRefresh,
                                       ExpiryOf(now, out.expires_in), sv)
            /\ lastExch' = NoExch
            /\ lastOp' = [NoOp EXCEPT !.op = op, !.val = out.access, !.net = 1,
                                      !.resp = out, !.save = sv]

\* a refresh that stores the response's refresh token even when it is empty
refreshUserToken_OverwriteRefresh(op, out, sv) ==
    /\ netCalls < MaxNet
    /\ netCalls' = netCalls + 1
    /\ IF RefreshErr(out) # ""
       THEN /\ lastOp' = [NoOp EXCEPT !.op = op, !.ok = FALSE, !.err = RefreshErr(out),
                                      !.net = 1, !.resp = out]
            /\ UNCHANGED tokenVars
       ELSE /\ userAccessToken' = out.access
            /\ userRefreshToken' = out.refresh
            /\ userExpiresAt' = ExpiryOf(now, out.expires_in)
            /\ tokenFile' = SaveTokens(tokenFile, out.access, out.refresh,
                                       ExpiryOf(now, out.expires_in), sv)
            /\ lastExch' = NoExch
            /\ lastOp' = [NoOp EXCEPT !.op = op, !.val = out.access, !.net = 1,
                                      !.resp = out, !.save = sv]

\* refreshUserToken, called for caller op
refreshUserToken(op, out, sv) ==
    /\ netCalls < MaxNet
    /\ netCalls' = netCalls + 1
    /\ IF RefreshErr(out) # ""
       THEN /\ lastOp' = [NoOp EXCEPT !.op = op, !.ok = FALSE, !.err = RefreshErr(out),
                                      !.net = 1, !.resp = out]
            /\ UNCHANGED tokenVars
       ELSE LET newRefresh == IF out.refresh # "" THEN out.refresh
                                                 ELSE userRefreshToken IN
            /\ userAccessToken' = out.access
            /\ userRefreshToken' = newRefresh
            /\ userExpiresAt' = ExpiryOf(now, out.expires_in)
            /\ tokenFile' = SaveTokens(tokenFile, out.access, newRefresh,
                                       ExpiryOf(now, out.expires_in), sv)
            /\ lastExch' = NoExch
            /\ lastOp' = [NoOp EXCEPT !.op = op, !.val = out.access, !.net = 1,
                                      !.resp = out, !.save = sv]

\* the cached access token can be returned as it is
CachedValid == userAccessToken # "" /\ Before(now, userExpiresAt)

\* a lookup that returns any cached token without looking at its expiry
UserToken_IgnoreExpiry(op, out, sv) ==
    /\ IF userAccessToken # ""
       THEN /\ lastOp' = [NoOp EXCEPT !.op = op, !.val = userAccessToken]
            /\ UNCHANGED <<netCalls, tokenVars>>
       ELSE IF userRefreshToken # ""
       THEN refreshUserToken(op, out, sv)
       ELSE /\ lastOp' = [NoOp EXCEPT !.op = op, !.ok = FALSE,
                  !.err = "no valid user access token available, authorization required"]
            /\ UNCHANGED <<netCalls, tokenVars>>
    /\ UNCHANGED <<envVars, tableVars>>

\* a lookup that refreshes whenever it holds a refresh token
UserToken_AlwaysRefresh(op, out, sv) ==
    /\ IF userRefreshToken # ""
       THEN refreshUserToken(op, out, sv)
       ELSE /\ lastOp' = [NoOp EXCEPT !.op = op, !.val = userAccessToken]
            /\ UNCHANGED <<netCalls, tokenVars>>
    /\ UNCHANGED <<envVars, tableVars>>

\* the body of GetUserAccessToken, run for caller op
UserToken(op, out, sv) ==
    /\ IF CachedValid
       THEN /\ lastOp' = [NoOp EXCEPT !.op = op, !.val = userAccessToken]
            /\ UNCHANGED <<netCalls, tokenVars>>
       ELSE IF userRefreshToken # ""
       THEN refreshUserToken(op, out, sv)
       ELSE /\ lastOp' = [NoOp EXCEPT !.op = op, !.ok = FALSE,
                  !.err = "no valid user access token available, authorization required"]
            /\ UNCHANGED <<netCalls, tokenVars>>
    /\ UNCHANGED <<envVars, tableVars>>

\* GetUserAccessToken()
GetUserAccessToken(out, sv) == UserToken("GetUserAccessToken", out, sv)

\* an authorization check that is content with any stored access token
IsUserAuthorized_IgnoreExpiry(out, sv) ==
    UserToken_IgnoreExpiry("IsUserAuthorized", out, sv)

\* IsUserAuthorized(): GetUserAccessToken with the token discarded
IsUserAuthorized(out, sv) == UserToken("IsUserAuthorized", out, sv)

(* ---------------------------------------------------------------------- *)
(* The clock                                                                *)
(* ---------------------------------------------------------------------- *)

Tick(d) ==
    /\ ticks < MaxTicks
    /\ now' = now + d
    /\ ticks' = ticks + 1
    /\ lastOp' = [NoOp EXCEPT !.op = "Tick"]
    /\ UNCHANGED <<netCalls, creds, pc, loc, tableVars, tokenVars>>

(* ---------------------------------------------------------------------- *)
(* Specifications                                                           *)
(* ---------------------------------------------------------------------- *)

CredValues == { [id |-> "cid", secret |-> "sec"], [id |-> "", secret |-> ""] }

\* NewOAuthService with no token file on disk
Init ==
    /\ now = 0
    /\ ticks = 0
    /\ netCalls = 0
    /\ creds \in CredValues
    /\ stateStore = EmptyStore
    /\ userAccessToken = ""
    /\ userRefreshToken = ""
    /\ userExpiresAt = ZeroTime
    /\ tokenFile = NoFile
    /\ issuedAt = EmptyStore
    /\ consumed = {}
    /\ lastExch = NoExch
    /\ lastOp = NoOp
    /\ pc = [c \in Callers |-> "idle"]
    /\ loc = [c \in Callers |-> NoLocals]

InitState == Init /\ creds.id # ""

NextState ==
    \/ \E d \in StateSteps : Tick(d)
    \/ GenerateState
    \/ ValidateStateEmpty
    \/ \E s \in StateTokens : ValidateState(s)

\* the state table under any sequence of issuance and validation calls
SpecState == InitState /\ [][NextState]_vars

\* the file system outcomes that matter after answer out: a save is only
\* attempted when the answer is stored
SavesAfter(err) == IF err = "" THEN SaveOutcomes ELSE {"none"}

\* the answers that matter to a lookup: none unless it has to refresh
RefreshAnswers == IF CachedValid \/ userRefreshToken = "" THEN {NoBody} ELSE NetOutcomes

NextToken ==
    \/ \E d \in TokenSteps : Tick(d)
    \/ ExchangeCodeForToken("", NoBody, "none")
    \/ \E out \in NetOutcomes : \E sv \in SavesAfter(ExchangeErr(out)) :
           ExchangeCodeForToken("code", out, sv)
    \/ \E out \in RefreshAnswers : \E sv \in SavesAfter(RefreshErr(out)) :
           GetUserAccessToken(out, sv)
    \/ \E out \in RefreshAnswers : \E sv \in SavesAfter(RefreshErr(out)) :
           IsUserAuthorized(out, sv)
    \/ \E sv \in SaveOutcomes : SaveTokensCall(sv)
    \/ \E readOk \in BOOLEAN : NewOAuthService(readOk)

\* the token record under any sequence of exchanges, lookups, saves and restarts
SpecToken == InitState /\ [][NextToken]_vars

InitNoCreds == Init /\ creds.id = "" /\ creds.secret = ""

\* the same for a manager constructed with empty client id and client secret
SpecNoCreds == InitNoCreds /\ [][NextToken]_vars

(* ---------------------------------------------------------------------- *)
(* Properties of the state table                                            *)
(* ---------------------------------------------------------------------- *)

\* the step is a call ValidateState(s)
IsValidate(s) == lastOp'.op = "ValidateState" /\ lastOp'.st = s

\* s was returned by GenerateState and no ValidateState(s) succeeded yet
Pending(s) == s \in DOMAIN issuedAt /\ s \notin consumed

\* C1: a state token validates at most once: a ValidateState(s) made on a
\* pending s before it expires succeeds, and every ValidateState(s) after a
\* successful one returns an error.
C1_SingleUse ==
    [][\A s \in StateTokens :
          IsValidate(s) =>
              /\ (s \in consumed => ~lastOp'.ok)
              /\ (Pending(s) /\ Before(now, issuedAt[s] + StateTTL) => lastOp'.ok)]_vars

\* a consumed token was presented again and rejected
C1_Witness ==
    /\ lastOp.op = "ValidateState"
    /\ lastOp.st \in consumed
    /\ ~lastOp.ok

\* C2: ValidateState on a token issued more than 10 minutes ago and never
\* validated returns an error, and afterwards the table holds no entry for it.
C2_ExpiredRejected ==
    [][\A s \in StateTokens :
          (IsValidate(s) /\ Pending(s) /\ now > issuedAt[s] + StateTTL) =>
              /\ ~lastOp'.ok
              /\ s \notin DOMAIN stateStore']_vars

\* a never validated token was presented after its 10 minutes and rejected
C2_Witness ==
    /\ lastOp.op = "ValidateState"
    /\ lastOp.st \in DOMAIN issuedAt
    /\ lastOp.st \notin consumed
    /\ now > issuedAt[lastOp.st] + StateTTL
    /\ ~lastOp.ok
    /\ lastOp.st \notin DOMAIN stateStore

\* C3: GenerateState leaves its token in the table with an expiry exactly 10
\* minutes after its creation time; a pending token validates 9min59s after
\* issuance and is rejected 10min1s after it, whatever calls on other tokens
\* (and their sweeps) came in between.
C3_TenMinuteWindow ==
    [][/\ lastOp'.op = "GenerateState" =>
            /\ lastOp'.st \in DOMAIN stateStore'
            /\ stateStore'[lastOp'.st].CreatedAt = now'
            /\ stateStore'[lastOp'.st].ExpiresAt =
                   stateStore'[lastOp'.st].CreatedAt + StateTTL
       /\ \A s \in StateTokens :
            (IsValidate(s) /\ Pending(s)) =>
                /\ (now = issuedAt[s] + StateTTL - 1 => lastOp'.ok)
                /\ (now = issuedAt[s] + StateTTL + 1 => ~lastOp'.ok)]_vars

\* a token was accepted 9min59s after issuance, after another token was issued
C3_Witness ==
    /\ lastOp.op = "ValidateState"
    /\ lastOp.ok
    /\ now = issuedAt[lastOp.st] + StateTTL - 1
    /\ \E o \in DOMAIN issuedAt : o # lastOp.st /\ issuedAt[o] > issuedAt[lastOp.st]

(* ---------------------------------------------------------------------- *)
(* Properties of the user token record                                      *)
(* ---------------------------------------------------------------------- *)

AuthRequired == "no valid user access token available, authorization required"

recordVars == <<userAccessToken, userRefreshToken, userExpiresAt>>

\* C4: with a non-empty cached access token and now < expiry,
\* GetUserAccessToken returns exactly that token, sends nothing to the token
\* endpoint and leaves the token record and the token file as they were, so
\* that a call right after it finds the same situation.
C4_CachedNoNetwork ==
    [][(lastOp'.op = "GetUserAccessToken" /\ CachedValid) =>
          /\ lastOp'.ok
          /\ lastOp'.val = userAccessToken
          /\ lastOp'.net = 0
          /\ netCalls' = netCalls
          /\ UNCHANGED <<recordVars, tokenFile>>
          /\ CachedValid']_vars

\* a lookup answered from the cache, with a refresh token at hand
C4_Witness ==
    /\ lastOp.op = "GetUserAccessToken"
    /\ lastOp.ok
    /\ lastOp.net = 0
    /\ lastOp.val = userAccessToken
    /\ CachedValid
    /\ userRefreshToken # ""

\* C5: with an expired access token and a refresh token, one
\* GetUserAccessToken call sends exactly one refresh request, returns the
\* renewed access token, and stores an expiry strictly later than now, for
\* every expires_in the server answers with.
C5_RefreshRenews ==
    [][(/\ lastOp'.op = "GetUserAccessToken"
        /\ userAccessToken # ""
        /\ ~Before(now, userExpiresAt)
        /\ userRefreshToken # "") =>
          /\ lastOp'.net = 1
          /\ netCalls' = netCalls + 1
          /\ lastOp'.resp.kind = "ok" =>
                /\ lastOp'.ok
                /\ lastOp'.val = lastOp'.resp.access
                /\ userAccessToken' = lastOp'.resp.access
                /\ After(userExpiresAt', now')]_vars

\* C6: with the access token absent or expired and no refresh token,
\* GetUserAccessToken fails with the authorization-required error, sends
\* nothing to the token endpoint and leaves the token record unchanged.
C6_AuthorizationRequired ==
    [][(/\ lastOp'.op = "GetUserAccessToken"
        /\ (userAccessToken = "" \/ ~Before(now, userExpiresAt))
        /\ userRefreshToken = "") =>
          /\ ~lastOp'.ok
          /\ lastOp'.err = AuthRequired
          /\ lastOp'.val = ""
          /\ lastOp'.net = 0
          /\ netCalls' = netCalls
          /\ UNCHANGED <<recordVars, tokenFile>>]_vars

\* a lookup refused while an expired access token is still held
C6_Witness ==
    /\ lastOp.op = "GetUserAccessToken"
    /\ ~lastOp.ok
    /\ lastOp.err = AuthRequired
    /\ userAccessToken # ""
    /\ ~Before(now, userExpiresAt)
    /\ userRefreshToken = ""

\* the manager still holds what an exchange at t0 answered: a token for an
\* hour and no refresh token
HourExchange ==
    /\ lastExch.access # ""
    /\ lastExch.refresh = ""
    /\ lastExch.expires_in = HourExpiresIn

\* C7 (as claimed): after an exchange at t0 answers access token X with
\* expires_in 3600 and no refresh token, GetUserAccessToken returns X until
\* now > t0+3540s, so still at now = t0+3540s, and fails with the
\* authorization-required error after that.
C7_ValidThroughBoundary ==
    (lastOp.op = "GetUserAccessToken" /\ HourExchange) =>
        IF now <= lastExch.t0 + (HourExpiresIn - ExpiryMargin)
        THEN lastOp.ok /\ lastOp.val = lastExch.access
        ELSE ~lastOp.ok /\ lastOp.err = AuthRequired

\* C7 (amended): after such an exchange GetUserAccessToken returns X while
\* now < t0+3540s; from now = t0+3540s on it fails with the
\* authorization-required error.
C7_ValidUntilBoundary ==
    (lastOp.op = "GetUserAccessToken" /\ HourExchange) =>
        IF now < lastExch.t0 + (HourExpiresIn - ExpiryMargin)
        THEN lastOp.ok /\ lastOp.val = lastExch.access /\ lastOp.net = 0
        ELSE ~lastOp.ok /\ lastOp.err = AuthRequired /\ lastOp.net = 0

\* a lookup made exactly 3540 seconds after the exchange, refused
C7_Witness ==
    /\ lastOp.op = "GetUserAccessToken"
    /\ HourExchange
    /\ now = lastExch.t0 + (HourExpiresIn - ExpiryMargin)
    /\ ~lastOp.ok

\* C8: a manager constructed with empty client id / client secret never sends
\* a request to the token endpoint: every exchange with a non-empty code and
\* every refresh fails with a configuration error first.
C8_NoCredentialsNoRequest ==
    (creds.id = "" \/ creds.secret = "") =>
        /\ netCalls = 0
        /\ lastOp.net = 0
        /\ (lastOp.op = "ExchangeCodeForToken" /\ lastOp.code # "") => ~lastOp.ok

\* C9: when manager A holds an unexpired token record and the token file is
\* what A saved, a manager B constructed on the same path (and able to read
\* it) holds the same access token, refresh token and expiry, and is
\* authorized exactly when A is.
C9_SaveLoadRoundTrip ==
    [][(/\ lastOp'.op = "NewOAuthService"
        /\ lastOp'.err = ""
        /\ tokenFile = TokenStore(userAccessToken, userRefreshToken, userExpiresAt)
        /\ Before(now, userExpiresAt)) =>
          /\ userAccessToken' = userAccessToken
          /\ userRefreshToken' = userRefreshToken
          /\ userExpiresAt' = userExpiresAt
          /\ CachedValid' <=> CachedValid]_vars

\* a manager constructed from the file its predecessor saved, holding both tokens
C9_Witness ==
    /\ lastOp.op = "NewOAuthService"
    /\ lastOp.err = ""
    /\ tokenFile = TokenStore(userAccessToken, userRefreshToken, userExpiresAt)
    /\ CachedValid
    /\ userRefreshToken # ""

(* ---------------------------------------------------------------------- *)
(* Concurrent callers of the token record                                   *)
(*                                                                          *)
(* OAuthService guards stateStore with stateMutex and guards the three      *)
(* token fields with nothing.  Each read and each write of a field is a     *)
(* step of its own here, and the steps of different callers interleave.     *)
(* ---------------------------------------------------------------------- *)

\* the answers the token endpoint gives to concurrent callers
ConcAnswers ==
    { [kind |-> "status", access |-> "", refresh |-> "", expires_in |-> 0],
      [kind |-> "ok", access |-> "X", refresh |-> "RX", expires_in |-> HourExpiresIn],
      [kind |-> "ok", access |-> "Y", refresh |-> "RY", expires_in |-> 2 * HourExpiresIn] }

\* the record of a manager whose access token "W" has run out
HeldRecord == [a |-> "W", r |-> "RW", e |-> ExpiryOf(0, ExpiryMargin)]

seqVars == <<now, ticks, creds, tableVars, lastExch, lastOp>>

Goto(c, label) == pc' = [pc EXCEPT ![c] = label]

\* ExchangeCodeForToken up to the decoded answer (lines 89-141)
StartExchange(c, out) ==
    /\ pc[c] = "idle"
    /\ netCalls < MaxNet
    /\ netCalls' = netCalls + 1
    /\ IF ExchangeErr(out) # ""
       THEN /\ Goto(c, "done")
            /\ loc' = [loc EXCEPT ![c] = [NoLocals EXCEPT !.op = "exchange",
                                                          !.err = ExchangeErr(out)]]
       ELSE /\ Goto(c, "wrA")
            /\ loc' = [loc EXCEPT ![c] = [NoLocals EXCEPT !.op = "exchange", !.out = out]]
    /\ UNCHANGED <<seqVars, recordVars, tokenFile>>

\* GetUserAccessToken: o.userAccessToken != "" (line 160, left operand)
StartGet(c) ==
    /\ pc[c] = "idle"
    /\ Goto(c, IF userAccessToken # "" THEN "getE" ELSE "getR")
    /\ loc' = [loc EXCEPT ![c] = [NoLocals EXCEPT !.op = "get"]]
    /\ UNCHANGED <<seqVars, netCalls, recordVars, tokenFile>>

\* GetUserAccessToken: time.Now().Before(o.userExpiresAt) (line 160, right operand)
GetReadExpiry(c) ==
    /\ pc[c] = "getE"
    /\ Goto(c, IF Before(now, userExpiresAt) THEN "getRet" ELSE "getR")
    /\ UNCHANGED <<seqVars, netCalls, recordVars, tokenFile, loc>>

\* GetUserAccessToken: return o.userAccessToken, nil (line 161)
GetReturn(c) ==
    /\ pc[c] = "getRet"
    /\ Goto(c, "done")
    /\ loc' = [loc EXCEPT ![c].val = userAccessToken]
    /\ UNCHANGED <<seqVars, netCalls, recordVars, tokenFile>>

\* GetUserAccessToken: o.userRefreshToken != "" (line 165)
GetReadRefresh(c) ==
    /\ pc[c] = "getR"
    /\ IF userRefreshToken # ""
       THEN /\ Goto(c, "rfReq")
            /\ loc' = loc
       ELSE /\ Goto(c, "done")
            /\ loc' = [loc EXCEPT ![c].err = AuthRequired]
    /\ UNCHANGED <<seqVars, netCalls, recordVars, tokenFile>>

\* refreshUserToken up to the decoded answer (lines 173-209)
RefreshRequest(c, out) ==
    /\ pc[c] = "rfReq"
    /\ netCalls < MaxNet
    /\ netCalls' = netCalls + 1
    /\ IF RefreshErr(out) # ""
       THEN /\ Goto(c, "done")
            /\ loc' = [loc EXCEPT ![c].err = RefreshErr(out)]
       ELSE /\ Goto(c, "wrA")
            /\ loc' = [loc EXCEPT ![c].op = "refresh", ![c].out = out]
    /\ UNCHANGED <<seqVars, recordVars, tokenFile>>

\* o.userAccessToken = tokenResp.AccessToken (lines 144, 212)
WriteAccess(c) ==
    /\ pc[c] = "wrA"
    /\ userAccessToken' = loc[c].out.access
    /\ Goto(c, "wrR")
    /\ UNCHANGED <<seqVars, netCalls, userRefreshToken, userExpiresAt, tokenFile, loc>>

\* o.userRefreshToken = tokenResp.RefreshToken (line 145; lines 213-215 in a
\* refresh, which keeps the old one when the answer has none)
WriteRefresh(c) ==
    /\ pc[c] = "wrR"
    /\ userRefreshToken' =
           IF loc[c].op = "exchange" \/ loc[c].out.refresh # ""
           THEN loc[c].out.refresh
           ELSE userRefreshToken
    /\ Goto(c, "wrE")
    /\ UNCHANGED <<seqVars, netCalls, userAccessToken, userExpiresAt, tokenFile, loc>>

\* o.userExpiresAt = time.Now().Add(...) (lines 146, 216)
WriteExpiry(c) ==
    /\ pc[c] = "wrE"
    /\ userExpiresAt' = ExpiryOf(now, loc[c].out.expires_in)
    /\ Goto(c, "svA")
    /\ UNCHANGED <<seqVars, netCalls, userAccessToken, userRefreshToken, tokenFile, loc>>

\* SaveTokens: AccessToken: o.userAccessToken (line 310)
SnapAccess(c) ==
    /\ pc[c] = "svA"
    /\ loc' = [loc EXCEPT ![c].store = TokenStore(userAccessToken, "", ZeroTime)]
    /\ Goto(c, "svR")
    /\ UNCHANGED <<seqVars, netCalls, recordVars, tokenFile>>

\* SaveTokens: RefreshToken: o.userRefreshToken (line 311)
SnapRefresh(c) ==
    /\ pc[c] = "svR"
    /\ loc' = [loc EXCEPT ![c].store.RefreshToken = userRefreshToken]
    /\ Goto(c, "svE")
    /\ UNCHANGED <<seqVars, netCalls, recordVars, tokenFile>>

\* SaveTokens: ExpiresAt: o.userExpiresAt (line 312)
SnapExpiry(c) ==
    /\ pc[c] = "svE"
    /\ loc' = [loc EXCEPT ![c].store.ExpiresAt = userExpiresAt]
    /\ Goto(c, "svW")
    /\ UNCHANGED <<seqVars, netCalls, recordVars, tokenFile>>

\* SaveTokens: MkdirAll, json.Marshal, os.WriteFile (lines 315-329); the
\* exchange returns after it, the refresh goes on to its return statement
WriteFile(c, sv) ==
    /\ pc[c] = "svW"
    /\ tokenFile' = SaveTokens(tokenFile, loc[c].store.AccessToken,
                               loc[c].store.RefreshToken, loc[c].store.ExpiresAt, sv)
    /\ Goto(c, IF loc[c].op = "exchange" THEN "done" ELSE "rfRet")
    /\ UNCHANGED <<seqVars, netCalls, recordVars, loc>>

\* refreshUserToken: return o.userAccessToken, nil (line 224)
RefreshReturn(c) ==
    /\ pc[c] = "rfRet"
    /\ Goto(c, "done")
    /\ loc' = [loc EXCEPT ![c].val = userAccessToken]
    /\ UNCHANGED <<seqVars, netCalls, recordVars, tokenFile>>

\* a manager that holds nothing, or one whose access token has run out
InitConc ==
    /\ now = 0
    /\ ticks = 0
    /\ netCalls = 0
    /\ creds = [id |-> "cid", secret |-> "sec"]
    /\ stateStore = EmptyStore
    /\ \E rec \in {ZeroRecord, HeldRecord} :
          /\ userAccessToken = rec.a
          /\ userRefreshToken = rec.r
          /\ userExpiresAt = rec.e
          /\ tokenFile = IF rec = ZeroRecord THEN NoFile
                         ELSE TokenStore(rec.a, rec.r, rec.e)
    /\ issuedAt = EmptyStore
    /\ consumed = {}
    /\ lastExch = NoExch
    /\ lastOp = NoOp
    /\ pc = [c \in Callers |-> "idle"]
    /\ loc = [c \in Callers |-> NoLocals]

NextConc ==
    \E c \in Callers :
        \/ \E out \in ConcAnswers : StartExchange(c, out)
        \/ StartGet(c)
        \/ GetReadExpiry(c)
        \/ GetReturn(c)
        \/ GetReadRefresh(c)
        \/ \E out \in ConcAnswers : RefreshRequest(c, out)
        \/ WriteAccess(c)
        \/ WriteRefresh(c)
        \/ WriteExpiry(c)
        \/ SnapAccess(c)
        \/ SnapRefresh(c)
        \/ SnapExpiry(c)
        \/ \E sv \in SaveOutcomes : WriteFile(c, sv)
        \/ RefreshReturn(c)

\* two callers, each running one exchange or one lookup, step by step
SpecConc == InitConc /\ [][NextConc]_vars

\* the records that hold the tokens and the expiry of one and the same source:
\* nothing, the record held at the start, or one answer of the token endpoint
WholeRecords ==
    {ZeroRecord, HeldRecord} \cup
    { [a |-> out.access, r |-> out.refresh, e |-> ExpiryOf(now, out.expires_in)] :
          out \in {o \in ConcAnswers : o.kind = "ok"} }

Quiescent == \A c \in Callers : pc[c] \in {"idle", "done"}

\* C10: the token record is safe under concurrent use: once the concurrent
\* exchanges and lookups have returned, the record holds the access token,
\* refresh token and expiry of one token response, and every snapshot of the
\* record that SaveTokens takes does too; none combines the access token of
\* one response with the refresh token or expiry of another.
C10_NoTornRecord ==
    /\ Quiescent =>
          [a |-> userAccessToken, r |-> userRefreshToken, e |-> userExpiresAt]
              \in WholeRecords
    /\ \A c \in Callers :
          pc[c] = "svW" =>
              [a |-> loc[c].store.AccessToken, r |-> loc[c].store.RefreshToken,
               e |-> loc[c].store.ExpiresAt] \in WholeRecords

(* ---------------------------------------------------------------------- *)
(* Concurrent callers of ValidateState                                      *)
(*                                                                          *)
(* ValidateState takes stateMutex.Lock() and releases it on return; the     *)
(* statements in between are steps of their own here.                       *)
(* ---------------------------------------------------------------------- *)

\* the goroutines that present a state token at the same time
Validators == {"c1", "c2", "c3"}

\* a validating caller's locals: the token it presents, the StateInfo it
\* found, and the error it returns
NoValLocals == [op |-> "none", st |-> 0,
                info |-> [CreatedAt |-> ZeroTime, ExpiresAt |-> ZeroTime], err |-> ""]

\* where a caller stands while it holds stateMutex
Locked == {"vSweep", "vLook", "vCheck", "vDel", "vUnlock"}

\* a mutex that lets every caller in
MutexFree_NoLock(c) == TRUE

\* o.stateMutex.Lock() returns for c: no other caller holds the mutex
MutexFree(c) == \A o \in DOMAIN pc \ {c} : pc[o] \notin Locked

valFrame == <<now, ticks, netCalls, creds, tokenVars, issuedAt, lastOp>>

\* ValidateState(s): the empty check passed, o.stateMutex.Lock() (lines 255-260)
VLock(c, s) ==
    /\ pc[c] = "idle"
    /\ MutexFree(c)
    /\ Goto(c, "vSweep")
    /\ loc' = [loc EXCEPT ![c] = [NoValLocals EXCEPT !.op = "validate", !.st = s]]
    /\ UNCHANGED <<valFrame, stateStore, consumed>>

\* o.cleanupExpiredStates() (line 263)
VSweep(c) ==
    /\ pc[c] = "vSweep"
    /\ stateStore' = cleanupExpiredStates(stateStore, now)
    /\ Goto(c, "vLook")
    /\ UNCHANGED <<valFrame, consumed, loc>>

\* stateInfo, exists := o.stateStore[state] (lines 265-268)
VLookup(c) ==
    /\ pc[c] = "vLook"
    /\ IF loc[c].st \in DOMAIN stateStore
       THEN /\ loc' = [loc EXCEPT ![c].info = stateStore[loc[c].st]]
            /\ Goto(c, "vCheck")
       ELSE /\ loc' = [loc EXCEPT ![c].err = "invalid or expired state parameter"]
            /\ Goto(c, "vUnlock")
    /\ UNCHANGED <<valFrame, stateStore, consumed>>

\* if time.Now().After(stateInfo.ExpiresAt) { delete; return error } (lines 271-274)
VCheck(c) ==
    /\ pc[c] = "vCheck"
    /\ IF After(now, loc[c].info.ExpiresAt)
       THEN /\ stateStore' = Delete(stateStore, loc[c].st)
            /\ loc' = [loc EXCEPT ![c].err = "state parameter has expired"]
            /\ Goto(c, "vUnlock")
       ELSE /\ stateStore' = stateStore
            /\ loc' = loc
            /\ Goto(c, "vDel")
    /\ UNCHANGED <<valFrame, consumed>>

\* delete(o.stateStore, state); return nil (lines 277-279)
VDelete(c) ==
    /\ pc[c] = "vDel"
    /\ stateStore' = Delete(stateStore, loc[c].st)
    /\ consumed' = consumed \cup {loc[c].st}
    /\ Goto(c, "vUnlock")
    /\ UNCHANGED <<valFrame, loc>>

\* defer o.stateMutex.Unlock() (line 260)
VUnlock(c) ==
    /\ pc[c] = "vUnlock"
    /\ Goto(c, "done")
    /\ UNCHANGED <<valFrame, stateStore, consumed, loc>>

\* a manager right after it issued every state token it is going to issue
InitVal ==
    /\ now = 0
    /\ ticks = 0
    /\ netCalls = 0
    /\ creds = [id |-> "cid", secret |-> "sec"]
    /\ stateStore = [s \in StateTokens |->
                        [CreatedAt |-> now, ExpiresAt |-> now + StateTTL]]
    /\ userAccessToken = ""
    /\ userRefreshToken = ""
    /\ userExpiresAt = ZeroTime
    /\ tokenFile = NoFile
    /\ issuedAt = [s \in StateTokens |-> now]
    /\ consumed = {}
    /\ lastExch = NoExch
    /\ lastOp = NoOp
    /\ pc = [c \in Validators |-> "idle"]
    /\ loc = [c \in Validators |-> NoValLocals]

NextVal ==
    \E c \in Validators :
        \/ \E s \in StateTokens : VLock(c, s)
        \/ VSweep(c)
        \/ VLookup(c)
        \/ VCheck(c)
        \/ VDelete(c)
        \/ VUnlock(c)

\* three callers, each presenting one issued, unexpired state token
SpecVal == InitVal /\ [][NextVal]_vars

\* the callers that presented s, and those of them whose call returned nil
Presented(s) == {c \in Validators : loc[c].op = "validate" /\ loc[c].st = s}
Accepted(s) == {c \in Presented(s) : pc[c] = "done" /\ loc[c].err = ""}

\* C11: when callers present the same issued, unexpired state token at the
\* same time, at most one call succeeds at any moment, and once all of them
\* have returned exactly one has succeeded and the others got an error.
C11_ExactlyOneWins ==
    \A s \in StateTokens :
        /\ Cardinality(Accepted(s)) <= 1
        /\ (Presented(s) # {} /\ \A c \in Presented(s) : pc[c] = "done") =>
               /\ Cardinality(Accepted(s)) = 1
               /\ \A c \in Presented(s) \ Accepted(s) : loc[c].err # ""

\* three callers presented the same token and all have returned
C11_Witness ==
    \E s \in StateTokens :
        /\ Presented(s) = Validators
        /\ \A c \in Validators : pc[c] = "done"
        /\ Cardinality(Accepted(s)) = 1

(* ---------------------------------------------------------------------- *)
(* The OAuth callback: validate the state, then exchange the code           *)
(* ---------------------------------------------------------------------- *)

\* the callback's state parameter when the query string carries none
EmptyState == 0

\* the error ValidateState(s) returns on table store at instant t ("" for nil)
ValidateErr(store, s, t) ==
    LET swept == cleanupExpiredStates(store, t) IN
    CASE s = EmptyState -> "state parameter is required"
      [] s \notin DOMAIN swept -> "invalid or expired state parameter"
      [] After(t, swept[s].ExpiresAt) -> "state parameter has expired"
      [] OTHER -> ""

\* a validation that sweeps but leaves the presented state in the table
ValidateStore_NoDelete(store, s, t) ==
    IF s = EmptyState THEN store ELSE cleanupExpiredStates(store, t)

\* the table ValidateState(s) leaves behind: untouched for the empty state,
\* otherwise swept and without s
ValidateStore(store, s, t) ==
    IF s = EmptyState THEN store ELSE Delete(cleanupExpiredStates(store, t), s)

\* the exchange's part of a callback: ExchangeCodeForToken(code) answered by out
ExchangeStep(op, code, s, out, sv) ==
    IF code = ""
    THEN /\ lastOp' = [NoOp EXCEPT !.op = op, !.st = s, !.ok = FALSE,
                                   !.err = "authorization code is required"]
         /\ UNCHANGED <<netCalls, tokenVars>>
    ELSE IF ExchangeErr(out) # ""
    THEN /\ netCalls < MaxNet
         /\ netCalls' = netCalls + 1
         /\ lastOp' = [NoOp EXCEPT !.op = op, !.st = s, !.code = code, !.ok = FALSE,
                                   !.err = ExchangeErr(out), !.net = 1, !.resp = out]
         /\ UNCHANGED tokenVars
    ELSE /\ netCalls < MaxNet
         /\ netCalls' = netCalls + 1
         /\ userAccessToken' = out.access
         /\ userRefreshToken' = out.refresh
         /\ userExpiresAt' = ExpiryOf(now, out.expires_in)
         /\ tokenFile' = SaveTokens(tokenFile, out.access, out.refresh,
                                    ExpiryOf(now, out.expires_in), sv)
         /\ lastExch' = [t0 |-> now, access |-> out.access,
                         refresh |-> out.refresh, expires_in |-> out.expires_in]
         /\ lastOp' = [NoOp EXCEPT !.op = op, !.st = s, !.code = code,
                                   !.net = 1, !.resp = out, !.save = sv]

\* a callback that exchanges the code whatever ValidateState returned
ValidateThenExchange_IgnoreState(op, code, s, out, sv) ==
    /\ stateStore' = ValidateStore(stateStore, s, now)
    /\ consumed' = IF ValidateErr(stateStore, s, now) = ""
                   THEN consumed \cup {s} ELSE consumed
    /\ ExchangeStep(op, code, s, out, sv)
    /\ UNCHANGED <<envVars, issuedAt>>

\* if err := ValidateState(state); err != nil { return err }
\* return ExchangeCodeForToken(code)
ValidateThenExchange(op, code, s, out, sv) ==
    /\ stateStore' = ValidateStore(stateStore, s, now)
    /\ consumed' = IF ValidateErr(stateStore, s, now) = ""
                   THEN consumed \cup {s} ELSE consumed
    /\ IF ValidateErr(stateStore, s, now) # ""
       THEN /\ lastOp' = [NoOp EXCEPT !.op = op, !.st = s, !.code = code, !.ok = FALSE,
                                      !.err = "invalid state"]
            /\ UNCHANGED <<netCalls, tokenVars>>
       ELSE ExchangeStep(op, code, s, out, sv)
    /\ UNCHANGED <<envVars, issuedAt>>

\* ZoomAlertModule.HandleOAuthCallback(code, state)
HandleOAuthCallback(code, s, out, sv) ==
    ValidateThenExchange("HandleOAuthCallback", code, s, out, sv)

\* an HTTP handler that validates the state before it looks at the error
\* parameter and the code
OAuthCallback_StateFirst(errorParam, code, s, out, sv) ==
    ValidateThenExchange("OAuthCallback", IF errorParam # "" THEN "" ELSE code,
                         s, out, sv)

\* AlertHandler.OAuthCallback: the HTTP handler rejects an error parameter and
\* a missing code before it looks at the state
OAuthCallback(errorParam, code, s, out, sv) ==
    IF errorParam # "" \/ code = ""
    THEN /\ lastOp' = [NoOp EXCEPT !.op = "OAuthCallback", !.st = s, !.code = code,
                                   !.ok = FALSE,
                                   !.err = IF errorParam # "" THEN errorParam
                                           ELSE "Missing authorization code in callback"]
         /\ UNCHANGED <<envVars, netCalls, tableVars, tokenVars>>
    ELSE ValidateThenExchange("OAuthCallback", code, s, out, sv)

\* the token endpoint's answers to a callback's exchange: a rejection, a body
\* without an access token, and a grant
FlowAnswers ==
    { [kind |-> "status", access |-> "", refresh |-> "", expires_in |-> 0],
      [kind |-> "ok", access |-> "", refresh |-> "", expires_in |-> 0],
      [kind |-> "ok", access |-> "X", refresh |-> "RX", expires_in |-> HourExpiresIn] }

\* the answers and file-system outcomes a callback with these parameters uses
FlowOutcomes(code, s) ==
    IF code = "" \/ ValidateErr(stateStore, s, now) # ""
    THEN {<<NoBody, "none">>}
    ELSE {<<out, sv>> : out \in FlowAnswers, sv \in {"ok", "fail"}} \
             {<<out, sv>> \in FlowAnswers \X {"ok", "fail"} :
                  ExchangeErr(out) # "" /\ sv # "fail"}

\* how far the clock moves between two calls of the flow: past a state's life
FlowSteps == {StateTTL + 1}

NextFlow ==
    \/ \E d \in FlowSteps : Tick(d)
    \/ GenerateState
    \/ \E code \in {"", "code"} : \E s \in StateTokens \cup {EmptyState} :
           \E o \in FlowOutcomes(code, s) : HandleOAuthCallback(code, s, o[1], o[2])
    \/ \E code \in {"", "code"} : \E s \in StateTokens \cup {EmptyState} :
           \E o \in FlowOutcomes(code, s) : OAuthCallback("", code, s, o[1], o[2])
    \/ \E s \in StateTokens \cup {EmptyState} :
           OAuthCallback("access_denied", "code", s, NoBody, "none")
    \/ ExchangeCodeForToken("", NoBody, "none")

\* the authorization flow: states are issued, time passes, callbacks arrive
SpecFlow == InitState /\ [][NextFlow]_vars

\* the step is a direct ExchangeCodeForToken("") call
IsEmptyCodeExchange == lastOp'.op = "ExchangeCodeForToken" /\ lastOp'.code = ""

\* C12: ExchangeCodeForToken with an empty code returns the missing-code
\* error, sends no request to the token endpoint, and leaves the token
\* record, the token file and the state table as they were.
C12_EmptyCodeRejected ==
    [][IsEmptyCodeExchange =>
          /\ ~lastOp'.ok
          /\ lastOp'.err = "authorization code is required"
          /\ lastOp'.net = 0
          /\ netCalls' = netCalls
          /\ UNCHANGED <<recordVars, tokenFile, stateStore>>]_vars

\* an empty code was refused while a token was held and a state was pending
C12_Witness ==
    /\ lastOp.op = "ExchangeCodeForToken"
    /\ lastOp.code = ""
    /\ lastOp.err = "authorization code is required"
    /\ userAccessToken # ""
    /\ tokenFile.kind = "tokens"
    /\ stateStore # EmptyStore

\* the token endpoint's answer is one the exchange must refuse: a non-200
\* status, a body that does not parse, or a body without an access token
RefusedAnswer(out) ==
    \/ out.kind \in {"status", "badjson"}
    \/ out.kind = "ok" /\ out.access = ""

\* C13: when the token endpoint answers a code exchange with a non-success
\* status, an unparsable body or a body without an access token, the
\* exchange returns an error and the token record and the token file are
\* exactly what they were before the call.
C13_FailedExchangeKeepsRecord ==
    [][(lastOp'.op = "ExchangeCodeForToken" /\ lastOp'.net = 1
            /\ RefusedAnswer(lastOp'.resp)) =>
          /\ ~lastOp'.ok
          /\ lastOp'.err # ""
          /\ UNCHANGED <<recordVars, tokenFile>>]_vars

\* a body without an access token was refused while a token was held and saved
C13_Witness ==
    /\ lastOp.op = "ExchangeCodeForToken"
    /\ lastOp.net = 1
    /\ lastOp.resp.kind = "ok"
    /\ lastOp.resp.access = ""
    /\ lastOp.resp.refresh # ""
    /\ ~lastOp.ok
    /\ userAccessToken # ""
    /\ tokenFile.kind = "tokens"

\* the step sent a request to the token endpoint and returned no error
GrantStep == lastOp'.net = 1 /\ lastOp'.err = ""

\* the refresh token a granted request leaves in the record: an exchange
\* stores the response's, a refresh keeps the old one when the response has none
GrantedRefresh ==
    IF lastOp'.op = "ExchangeCodeForToken" \/ lastOp'.resp.refresh # ""
    THEN lastOp'.resp.refresh
    ELSE userRefreshToken

\* C14 (as the code has it): a successful code exchange overwrites the token
\* record with the response's access token, the response's refresh token and
\* expiry now + expires_in - 60 s; a successful refresh does the same except
\* that it keeps the old refresh token when the response carries none; and
\* when the write succeeds the token file equals the new record.
C14_GrantOverwritesRecord ==
    [][GrantStep =>
          /\ userAccessToken' = lastOp'.resp.access
          /\ userRefreshToken' = GrantedRefresh
          /\ userExpiresAt' = now' + lastOp'.resp.expires_in - 60
          /\ (lastOp'.save = "ok" =>
                 tokenFile' = TokenStore(userAccessToken', userRefreshToken',
                                         userExpiresAt'))]_vars

\* a refresh whose response had no refresh token kept the old one, and the
\* file written after it holds the new record
C14_Witness ==
    /\ lastOp.op = "GetUserAccessToken"
    /\ lastOp.net = 1
    /\ lastOp.err = ""
    /\ lastOp.resp.refresh = ""
    /\ lastOp.save = "ok"
    /\ userAccessToken = lastOp.resp.access
    /\ userRefreshToken = "RX"
    /\ tokenFile = TokenStore(userAccessToken, userRefreshToken, userExpiresAt)

\* C14 as claimed: after every successful exchange or refresh the record
\* holds the response's access token, the response's refresh token and the
\* expiry now + expires_in - 60 s, and the file equals it when the write succeeded
C14_RecordIsResponse ==
    (lastOp.net = 1 /\ lastOp.err = "") =>
        /\ userAccessToken = lastOp.resp.access
        /\ userRefreshToken = lastOp.resp.refresh
        /\ userExpiresAt = now + lastOp.resp.expires_in - 60
        /\ (lastOp.save = "ok" =>
               tokenFile = TokenStore(userAccessToken, userRefreshToken, userExpiresAt))

(* ---------------------------------------------------------------------- *)
(* A manager that holds an expired access token and a refresh token         *)
(* ---------------------------------------------------------------------- *)

\* the manager after an exchange whose access token "W" has run out; the
\* file holds what that exchange saved
InitHeld ==
    /\ now = 0
    /\ ticks = 0
    /\ netCalls = 0
    /\ creds = [id |-> "cid", secret |-> "sec"]
    /\ stateStore = EmptyStore
    /\ userAccessToken = HeldRecord.a
    /\ userRefreshToken = HeldRecord.r
    /\ userExpiresAt = HeldRecord.e
    /\ tokenFile = TokenStore(HeldRecord.a, HeldRecord.r, HeldRecord.e)
    /\ issuedAt = EmptyStore
    /\ consumed = {}
    /\ lastExch = NoExch
    /\ lastOp = NoOp
    /\ pc = [c \in Callers |-> "idle"]
    /\ loc = [c \in Callers |-> NoLocals]

NextHeld ==
    \/ \E d \in TokenSteps : Tick(d)
    \/ \E out \in NetOutcomes : \E sv \in SavesAfter(ExchangeErr(out)) :
           ExchangeCodeForToken("code", out, sv)
    \/ \E out \in RefreshAnswers : \E sv \in SavesAfter(RefreshErr(out)) :
           GetUserAccessToken(out, sv)
    \/ \E readOk \in BOOLEAN : NewOAuthService(readOk)

\* the token lifecycle from the Expired state on
SpecHeld == InitHeld /\ [][NextHeld]_vars

\* the last call got tokens from the token endpoint and could not persist them
PersistFailed ==
    lastOp.net = 1 /\ lastOp.err = "" /\ lastOp.save \in {"fail", "failtrunc"}

\* C15: when persisting fails during an otherwise successful exchange or
\* refresh, the call still returns success, the record holds the new access
\* token, and a GetUserAccessToken call that follows before the new expiry
\* returns that access token.
C15_PersistFailureHarmless ==
    [][PersistFailed =>
          /\ lastOp.ok
          /\ userAccessToken = lastOp.resp.access
          /\ (lastOp'.op = "GetUserAccessToken" /\ Before(now', userExpiresAt)) =>
                 /\ lastOp'.err = ""
                 /\ lastOp'.val = lastOp.resp.access]_vars

\* the step is a GetUserAccessToken call whose refresh request was granted
RefreshGranted ==
    lastOp'.op = "GetUserAccessToken" /\ lastOp'.net = 1 /\ lastOp'.err = ""

\* C16: after a successful refresh whose response carries no refresh token
\* the record's refresh token is the one held before the refresh; when the
\* response carries a refresh token, that one replaces the old one.
C16_RefreshTokenKeptOrReplaced ==
    [][RefreshGranted =>
          /\ lastOp'.resp.refresh = "" => userRefreshToken' = userRefreshToken
          /\ lastOp'.resp.refresh # "" => userRefreshToken' = lastOp'.resp.refresh]_vars

\* a refresh without a refresh token in its response left the held one in place
C16_Witness ==
    /\ lastOp.op = "GetUserAccessToken"
    /\ lastOp.net = 1
    /\ lastOp.err = ""
    /\ lastOp.resp.access = "X"
    /\ lastOp.resp.refresh = ""
    /\ userAccessToken = "X"
    /\ userRefreshToken = HeldRecord.r

\* the step is a GetUserAccessToken call whose refresh request failed
RefreshFailed ==
    lastOp'.op = "GetUserAccessToken" /\ lastOp'.net = 1 /\ lastOp'.err # ""

\* RequiresReauthorization: no usable access token and no refresh token
RequiresReauthorization == ~CachedValid /\ userRefreshToken = ""

\* C17 (as the code has it): a failed refresh leaves the record as it was,
\* refresh token included, so the manager stays Expired-with-refresh-token;
\* with no usable access token and no refresh token GetUserAccessToken fails
\* with authorization-required without a request; and that state is left
\* only by a successful ExchangeCodeForToken or by a restart that loads a
\* still valid token file.
C17_Lifecycle ==
    [][/\ RefreshFailed => (UNCHANGED recordVars /\ userRefreshToken' # "")
       /\ (RequiresReauthorization /\ lastOp'.op = "GetUserAccessToken") =>
              (lastOp'.err = AuthRequired /\ lastOp'.net = 0)
       /\ (RequiresReauthorization /\ ~RequiresReauthorization') =>
              \/ lastOp'.op = "ExchangeCodeForToken" /\ lastOp'.err = ""
              \/ lastOp'.op = "NewOAuthService"]_vars

\* a refresh has just failed and the manager still holds its refresh token
C17_Witness ==
    /\ lastOp.op = "GetUserAccessToken"
    /\ lastOp.net = 1
    /\ lastOp.err # ""
    /\ ~CachedValid
    /\ userAccessToken = HeldRecord.a
    /\ userRefreshToken = HeldRecord.r

\* C17 as claimed: once a refresh attempt has failed, a GetUserAccessToken
\* call that follows it (no exchange in between) does not succeed
C17_NoRefreshAfterFailure ==
    [][(lastOp.op = "GetUserAccessToken" /\ lastOp.net = 1 /\ lastOp.err # ""
            /\ lastOp'.op = "GetUserAccessToken") =>
          lastOp'.err # ""]_vars

\* the step is an IsUserAuthorized call
IsAuthCheck == lastOp'.op = "IsUserAuthorized"

\* a GetUserAccessToken call made now, with the token endpoint answering as
\* it answered this step, returns a token
GetWouldSucceed ==
    \/ CachedValid
    \/ userRefreshToken # "" /\ lastOp'.net = 1 /\ RefreshErr(lastOp'.resp) = ""

\* C18: IsUserAuthorized returns true exactly when GetUserAccessToken called
\* at that moment succeeds (false for a manager without tokens, true with an
\* unexpired access token, false with an expired one and no refresh token),
\* and it changes the token record or the token file only when the access
\* token is absent or expired and a refresh token is held.
C18_AuthorizedIffTokenAvailable ==
    [][IsAuthCheck =>
          /\ lastOp'.ok <=> GetWouldSucceed
          /\ CachedValid => lastOp'.ok
          /\ (~CachedValid /\ userRefreshToken = "") => ~lastOp'.ok
          /\ (userAccessToken = "" /\ userRefreshToken = "") => ~lastOp'.ok
          /\ ~(UNCHANGED <<recordVars, tokenFile>>) =>
                 (~CachedValid /\ userRefreshToken # "")]_vars

\* IsUserAuthorized answered true after refreshing an expired token
C18_Witness ==
    /\ lastOp.op = "IsUserAuthorized"
    /\ lastOp.ok
    /\ lastOp.net = 1
    /\ lastOp.save = "ok"
    /\ CachedValid
    /\ tokenFile = TokenStore(userAccessToken, userRefreshToken, userExpiresAt)

\* the last call was a construction whose token file was missing, unreadable
\* or corrupted
LoadFailedOrMissing ==
    /\ lastOp.op = "NewOAuthService"
    /\ (tokenFile.kind \in {"absent", "corrupt"} \/ lastOp.err # "")

\* C19: construction never fails because of persistence: with a missing,
\* unreadable or corrupted token file NewOAuthService still returns a
\* manager, and its token record and state table are empty, as they are
\* when no token file exists.
C19_ConstructionSurvivesLoadFailure ==
    LoadFailedOrMissing =>
        /\ lastOp.ok
        /\ <<userAccessToken, userRefreshToken, userExpiresAt>> =
               <<ZeroRecord.a, ZeroRecord.r, ZeroRecord.e>>
        /\ stateStore = EmptyStore

\* a manager was constructed over a token file with valid tokens that could
\* not be read
C19_Witness ==
    /\ lastOp.op = "NewOAuthService"
    /\ lastOp.err = "failed to read token file"
    /\ lastOp.ok
    /\ tokenFile.kind = "tokens"
    /\ Before(now, tokenFile.ExpiresAt)
    /\ userAccessToken = ""

\* the step is an OAuth callback, through the module or the HTTP handler
IsCallback == lastOp'.op \in {"HandleOAuthCallback", "OAuthCallback"}

\* s was issued, has not been consumed and is not past its expiry
Acceptable(s) == Pending(s) /\ ~After(now, issuedAt[s] + StateTTL)

\* C20: in the OAuth callback the state is validated and consumed before the
\* code is exchanged: a callback whose state does not validate sends no
\* token request and leaves the token record and file unchanged, and a token
\* request is sent only for a state that was issued, is unexpired and was
\* not consumed before, which is consumed by then.
C20_StateBeforeExchange ==
    [][IsCallback =>
          /\ ~Acceptable(lastOp'.st) =>
                 /\ ~lastOp'.ok
                 /\ lastOp'.net = 0
                 /\ netCalls' = netCalls
                 /\ UNCHANGED <<recordVars, tokenFile>>
          /\ lastOp'.net = 1 =>
                 /\ Acceptable(lastOp'.st)
                 /\ lastOp'.st \in consumed'
                 /\ lastOp'.st \notin DOMAIN stateStore']_vars

\* a callback with a pending state exchanged its code and consumed the state
C20_Witness ==
    /\ lastOp.op = "HandleOAuthCallback"
    /\ lastOp.net = 1
    /\ lastOp.ok
    /\ lastOp.st \in consumed
    /\ lastOp.st \notin DOMAIN stateStore
    /\ userAccessToken = lastOp.resp.access

(* ---------------------------------------------------------------------- *)
(* Sweeping and rejection in the state table                                *)
(* ---------------------------------------------------------------------- *)

\* no entry of the table is past its expiry
NoExpiredEntry == \A s \in DOMAIN stateStore : ~After(now, stateStore[s].ExpiresAt)

\* the step is a GenerateState call or a ValidateState call
IsTableCall == lastOp'.op \in {"GenerateState", "ValidateState"}

Unacceptable(s) ==
    \/ s = EmptyState
    \/ s \notin DOMAIN issuedAt
    \/ Pending(s) /\ After(now, issuedAt[s] + StateTTL)

\* C22: ValidateState fails for an empty token, for a token that was never
\* issued and for a token past its expiry; afterwards the table holds no
\* entry for that token, and a retry with the same value fails again.
C22_RejectedStaysRejected ==
    [][lastOp'.op = "ValidateState" =>
          /\ Unacceptable(lastOp'.st) =>
                 /\ ~lastOp'.ok
                 /\ lastOp'.err # ""
                 /\ lastOp'.st \notin DOMAIN stateStore'
          /\ (lastOp.op = "ValidateState" /\ ~lastOp.ok /\ lastOp'.st = lastOp.st) =>
                 ~lastOp'.ok]_vars

\* a token past its expiry was presented twice in a row and rejected both
\* times, while an unexpired token stayed in the table
C22_Witness ==
    /\ lastOp.op = "ValidateState"
    /\ lastOp.err = "invalid or expired state parameter"
    /\ lastOp.st \in DOMAIN issuedAt
    /\ lastOp.st \notin consumed
    /\ After(now, issuedAt[lastOp.st] + StateTTL)
    /\ lastOp.st \notin DOMAIN stateStore
    /\ stateStore # EmptyStore

(* ---------------------------------------------------------------------- *)
(* Operations beside the token record: the authorization URL and the        *)
(* client-credentials (chatbot) token                                       *)
(* ---------------------------------------------------------------------- *)

\* a URL builder that also registers the state it embeds
GetAuthorizationURL_Register(s) ==
    /\ stateStore' = [x \in DOMAIN stateStore \cup {s} |->
                         IF x = s THEN [CreatedAt |-> now, ExpiresAt |-> now + StateTTL]
                         ELSE stateStore[x]]
    /\ lastOp' = [NoOp EXCEPT !.op = "GetAuthorizationURL", !.st = s,
                              !.val = "https://zoom.us/oauth/authorize"]
    /\ UNCHANGED <<envVars, netCalls, issuedAt, consumed, tokenVars>>

\* OAuthService.GetAuthorizationURL(state): builds the URL from the config
\* and the state it is given
GetAuthorizationURL(s) ==
    /\ lastOp' = [NoOp EXCEPT !.op = "GetAuthorizationURL", !.st = s,
                              !.val = "https://zoom.us/oauth/authorize"]
    /\ UNCHANGED <<envVars, netCalls, tableVars, tokenVars>>

\* the error a client-credentials response makes GetChatbotToken return
ChatbotErr(out) ==
    CASE out.kind = "neterr" -> "failed to execute request"
      [] out.kind = "status" -> "token request failed with status"
      [] out.kind = "badjson" -> "failed to decode token response"
      [] OTHER -> ""

\* a client-credentials call that hands out the token of the call before it
GetChatbotToken_Cached(out) ==
    /\ IF creds.id = "" \/ creds.secret = ""
       THEN /\ lastOp' = [NoOp EXCEPT !.op = "GetChatbotToken", !.ok = FALSE,
                                      !.err = "client credentials not configured"]
            /\ netCalls' = netCalls
       ELSE IF lastOp.op = "GetChatbotToken" /\ lastOp.err = ""
       THEN /\ lastOp' = [NoOp EXCEPT !.op = "GetChatbotToken", !.val = lastOp.val]
            /\ netCalls' = netCalls
       ELSE /\ netCalls < MaxNet
            /\ netCalls' = netCalls + 1
            /\ lastOp' = [NoOp EXCEPT !.op = "GetChatbotToken",
                                      !.ok = (ChatbotErr(out) = ""),
                                      !.err = ChatbotErr(out),
                                      !.val = IF ChatbotErr(out) = "" THEN out.access ELSE "",
                                      !.net = 1, !.resp = out]
    /\ UNCHANGED <<envVars, tableVars, tokenVars>>

\* ZoomService.GetChatbotToken(): out is the token endpoint's answer
GetChatbotToken(out) ==
    /\ IF creds.id = "" \/ creds.secret = ""
       THEN /\ lastOp' = [NoOp EXCEPT !.op = "GetChatbotToken", !.ok = FALSE,
                                      !.err = "client credentials not configured"]
            /\ netCalls' = netCalls
       ELSE /\ netCalls < MaxNet
            /\ netCalls' = netCalls + 1
            /\ lastOp' = [NoOp EXCEPT !.op = "GetChatbotToken",
                                      !.ok = (ChatbotErr(out) = ""),
                                      !.err = ChatbotErr(out),
                                      !.val = IF ChatbotErr(out) = "" THEN out.access ELSE "",
                                      !.net = 1, !.resp = out]
    /\ UNCHANGED <<envVars, tableVars, tokenVars>>

\* the token endpoint's answers to a client-credentials request
ChatbotAnswers ==
    { [kind |-> "status", access |-> "", refresh |-> "", expires_in |-> 0],
      [kind |-> "ok", access |-> "B", refresh |-> "", expires_in |-> HourExpiresIn] }

\* client id and secret as the configuration may hold them
AppCredValues == [id : {"", "cid"}, secret : {"", "sec"}]

\* a fresh manager, whatever its credentials
InitApp ==
    /\ now = 0
    /\ ticks = 0
    /\ netCalls = 0
    /\ creds \in AppCredValues
    /\ stateStore = EmptyStore
    /\ userAccessToken = ""
    /\ userRefreshToken = ""
    /\ userExpiresAt = ZeroTime
    /\ tokenFile = NoFile
    /\ issuedAt = EmptyStore
    /\ consumed = {}
    /\ lastExch = NoExch
    /\ lastOp = NoOp
    /\ pc = [c \in Callers |-> "idle"]
    /\ loc = [c \in Callers |-> NoLocals]

\* the answers a client-credentials call reads
ChatbotOutcomes ==
    IF creds.id = "" \/ creds.secret = "" THEN {NoBody} ELSE ChatbotAnswers

NextApp ==
    \/ GenerateState
    \/ \E s \in StateTokens : ValidateState(s)
    \/ \E s \in StateTokens \cup {EmptyState} : GetAuthorizationURL(s)
    \/ \E out \in ChatbotOutcomes : GetChatbotToken(out)
    \/ \E out \in FlowAnswers : \E sv \in SavesAfter(ExchangeErr(out)) \ {"failtrunc"} :
           ExchangeCodeForToken("code", out, sv)

\* state issuance, validation, URL building and client-credentials requests
\* around a token record that exchanges fill
SpecApp == InitApp /\ [][NextApp]_vars

\* the operations that are not allowed to touch the token record
BesideRecord == {"GenerateState", "ValidateState", "GetAuthorizationURL", "GetChatbotToken"}

\* C23: GenerateState, ValidateState, GetAuthorizationURL and the
\* client-credentials request never change the access token, the refresh
\* token, the expiry or the token file, which only a code exchange (or a
\* refresh) changes; GetAuthorizationURL also leaves the state table as it
\* was: it does not register the state it embeds.
C23_RecordFrame ==
    [][/\ lastOp'.op \in BesideRecord => UNCHANGED <<recordVars, tokenFile>>
       /\ lastOp'.op = "GetAuthorizationURL" =>
              /\ UNCHANGED stateStore
              /\ (lastOp'.st \notin DOMAIN stateStore =>
                      lastOp'.st \notin DOMAIN stateStore')
       /\ ~(UNCHANGED <<recordVars, tokenFile>>) =>
              lastOp'.op = "ExchangeCodeForToken"]_vars

\* a URL was built for a state that is not in the table, while a token
\* record, a token file and another pending state exist
C23_Witness ==
    /\ lastOp.op = "GetAuthorizationURL"
    /\ lastOp.st # EmptyState
    /\ lastOp.st \notin DOMAIN stateStore
    /\ stateStore # EmptyStore
    /\ userAccessToken # ""
    /\ tokenFile.kind = "tokens"

\* C24: the client-credentials path keeps no cache: with client id and
\* secret configured every GetChatbotToken call sends one token request,
\* whatever the calls before it did, and with an empty client id or client
\* secret it fails with the configuration error without sending a request.
C24_ChatbotTokenAlwaysLive ==
    [][lastOp'.op = "GetChatbotToken" =>
          /\ (creds.id = "" \/ creds.secret = "") =>
                 /\ ~lastOp'.ok
                 /\ lastOp'.err = "client credentials not configured"
                 /\ lastOp'.net = 0
                 /\ netCalls' = netCalls
          /\ (creds.id # "" /\ creds.secret # "") =>
                 /\ lastOp'.net = 1
                 /\ netCalls' = netCalls + 1]_vars

\* two client-credentials calls were made and each sent its own request
C24_Witness ==
    /\ lastOp.op = "GetChatbotToken"
    /\ lastOp.ok
    /\ lastOp.val = "B"
    /\ lastOp.net = 1
    /\ netCalls = 2
    /\ userAccessToken = ""

(* ---------------------------------------------------------------------- *)
(* Configuration and module construction                                    *)
(* ---------------------------------------------------------------------- *)

\* the configurations a module is constructed with; creds holds the three
\* required fields here
ModuleConfigs == [account : {"", "acc"}, id : {"", "cid"}, secret : {"", "sec"}]

\* a validation that does not ask for the account id
Validate_NoAccount(c) ==
    IF c.id = "" THEN "ZOOM_CLIENT_ID is required"
    ELSE IF c.secret = "" THEN "ZOOM_CLIENT_SECRET is required"
    ELSE ""

\* Config.Validate: the error it returns ("" for nil)
Validate(c) ==
    IF c.account = "" THEN "ZOOM_ACCOUNT_ID is required"
    ELSE IF c.id = "" THEN "ZOOM_CLIENT_ID is required"
    ELSE IF c.secret = "" THEN "ZOOM_CLIENT_SECRET is required"
    ELSE ""

\* a call of config.Validate()
ValidateCall ==
    /\ lastOp' = [NoOp EXCEPT !.op = "Validate", !.ok = (Validate(creds) = ""),
                              !.err = Validate(creds)]
    /\ UNCHANGED <<envVars, netCalls, tableVars, tokenVars>>

\* NewZoomAlertModule(config): nil and an error for an invalid configuration,
\* otherwise a module whose OAuth service is built by NewOAuthService on the
\* configured token file, with Zoom service and logger set
NewZoomAlertModule(readOk) ==
    IF Validate(creds) # ""
    THEN /\ lastOp' = [NoOp EXCEPT !.op = "NewZoomAlertModule", !.ok = FALSE,
                                   !.err = "invalid configuration"]
         /\ UNCHANGED <<envVars, netCalls, tableVars, tokenVars>>
    ELSE LET rec == LoadTokens(tokenFile, readOk, now, ZeroRecord) IN
         /\ stateStore' = EmptyStore
         /\ issuedAt' = EmptyStore
         /\ consumed' = {}
         /\ userAccessToken' = rec.a
         /\ userRefreshToken' = rec.r
         /\ userExpiresAt' = rec.e
         /\ lastExch' = NoExch
         /\ lastOp' = [NoOp EXCEPT !.op = "NewZoomAlertModule", !.val = "module"]
         /\ UNCHANGED <<envVars, netCalls, tokenFile>>

\* the token files a module can find at its path: none, a damaged one, or
\* what an earlier process saved
FoundFiles ==
    {NoFile, CorruptFile, TokenStore("W", "RW", ExpiryOf(0, HourExpiresIn))}

\* a process before its module is constructed
InitModule ==
    /\ now = 0
    /\ ticks = 0
    /\ netCalls = 0
    /\ creds \in ModuleConfigs
    /\ stateStore = EmptyStore
    /\ userAccessToken = ""
    /\ userRefreshToken = ""
    /\ userExpiresAt = ZeroTime
    /\ tokenFile \in FoundFiles
    /\ issuedAt = EmptyStore
    /\ consumed = {}
    /\ lastExch = NoExch
    /\ lastOp = NoOp
    /\ pc = [c \in Callers |-> "idle"]
    /\ loc = [c \in Callers |-> NoLocals]

NextModule ==
    \/ \E d \in TokenSteps : Tick(d)
    \/ ValidateCall
    \/ \E readOk \in BOOLEAN : NewZoomAlertModule(readOk)

\* validation and construction for every configuration
SpecModule == InitModule /\ [][NextModule]_vars

\* at least one of account id, client id and client secret is empty
SomeRequiredEmpty == creds.account = "" \/ creds.id = "" \/ creds.secret = ""

\* C25: Config.Validate returns an error if and only if at least one of
\* account id, client id and client secret is empty, and NewZoomAlertModule
\* returns a module (and no error) if and only if Validate succeeds.
C25_ValidateGatesConstruction ==
    /\ lastOp.op = "Validate" => (lastOp.err # "" <=> SomeRequiredEmpty)
    /\ lastOp.op = "NewZoomAlertModule" =>
           /\ lastOp.val = "module" <=> ~SomeRequiredEmpty
           /\ lastOp.val = "module" <=> lastOp.err = ""
           /\ lastOp.ok <=> lastOp.err = ""

\* a module was constructed from a complete configuration and found the
\* tokens of an earlier process
C25_Witness ==
    /\ lastOp.op = "NewZoomAlertModule"
    /\ lastOp.val = "module"
    /\ ~SomeRequiredEmpty
    /\ userAccessToken = "W"

(* ---------------------------------------------------------------------- *)
(* Concurrent saves with a file system that does not fail                   *)
(* ---------------------------------------------------------------------- *)

NextConcSaved ==
    \E c \in Callers :
        \/ \E out \in ConcAnswers : StartExchange(c, out)
        \/ StartGet(c)
        \/ GetReadExpiry(c)
        \/ GetReturn(c)
        \/ GetReadRefresh(c)
        \/ \E out \in ConcAnswers : RefreshRequest(c, out)
        \/ WriteAccess(c)
        \/ WriteRefresh(c)
        \/ WriteExpiry(c)
        \/ SnapAccess(c)
        \/ SnapRefresh(c)
        \/ SnapExpiry(c)
        \/ WriteFile(c, "ok")
        \/ RefreshReturn(c)

\* two callers, step by step, every write of the token file succeeding
SpecConcSaved == InitConc /\ [][NextConcSaved]_vars

\* the token file holds the token record (or neither holds anything)
FileIsRecord ==
    \/ tokenFile = TokenStore(userAccessToken, userRefreshToken, userExpiresAt)
    \/ /\ tokenFile = NoFile
       /\ userAccessToken = ZeroRecord.a
       /\ userRefreshToken = ZeroRecord.r
       /\ userExpiresAt = ZeroRecord.e

\* C26: with every write of the token file succeeding, once all concurrent
\* exchanges and refreshes have returned the token file equals the token
\* record in memory: no interleaving leaves a stale snapshot on disk.
C26_FileMatchesMemory == Quiescent => FileIsRecord

(* ---------------------------------------------------------------------- *)
(* Properties of the refresh                                                *)
(* ---------------------------------------------------------------------- *)

\* C27: whenever GetUserAccessToken returns without error, the token it
\* returns is non-empty and is the access token stored in the record; a
\* refresh whose response lacks an access token is a failure.
C27_ReturnedTokenNonEmpty ==
    (lastOp.op = "GetUserAccessToken" /\ lastOp.err = "") =>
        /\ lastOp.val # ""
        /\ lastOp.val = userAccessToken
        /\ (lastOp.net = 1 => lastOp.resp.access # "")

\* the token endpoint's answer is a failed request, a non-200 status or a
\* body that does not decode
FailedAnswer(out) == out.kind \in {"neterr", "status", "badjson"}

\* C28: a refresh that fails with a network error, a non-success status or
\* an undecodable body returns an error and leaves access token, refresh
\* token, expiry and token file unchanged, so that the GetUserAccessToken
\* call after it sends a refresh request again.
C28_FailedRefreshKeepsRecord ==
    [][/\ (lastOp'.op = "GetUserAccessToken" /\ lastOp'.net = 1
              /\ FailedAnswer(lastOp'.resp)) =>
              /\ ~lastOp'.ok
              /\ lastOp'.err # ""
              /\ UNCHANGED <<recordVars, tokenFile>>
       /\ (lastOp.op = "GetUserAccessToken" /\ lastOp.net = 1 /\ lastOp.err # ""
              /\ lastOp'.op = "GetUserAccessToken") =>
              /\ lastOp'.net = 1
              /\ userRefreshToken # ""]_vars

\* two refreshes in a row failed and the manager still holds what it held
C28_Witness ==
    /\ lastOp.op = "GetUserAccessToken"
    /\ lastOp.net = 1
    /\ lastOp.resp.kind = "badjson"
    /\ ~lastOp.ok
    /\ netCalls = 2
    /\ userAccessToken = HeldRecord.a
    /\ userRefreshToken = HeldRecord.r
    /\ userExpiresAt = HeldRecord.e
    /\ tokenFile = TokenStore(HeldRecord.a, HeldRecord.r, HeldRecord.e)

\* the step constructs a manager over a token file it can read and parse
LoadsFile ==
    lastOp'.op = "NewOAuthService" /\ lastOp'.err = "" /\ tokenFile.kind = "tokens"

\* the manager was just constructed over a readable token file whose expiry
\* is not in the future
BuiltOnElapsedFile ==
    /\ lastOp.op = "NewOAuthService"
    /\ lastOp.err = ""
    /\ tokenFile.kind = "tokens"
    /\ ~Before(now, tokenFile.ExpiresAt)

\* C29: LoadTokens adopts the persisted record only if its expiry is still in
\* the future; a record whose expiry has elapsed is ignored entirely, its
\* refresh token included, so the manager constructed from it has an empty
\* token record and GetUserAccessToken fails with authorization-required
\* without attempting a refresh.
C29_ElapsedFileIgnored ==
    [][/\ LoadsFile =>
              IF Before(now, tokenFile.ExpiresAt)
              THEN /\ userAccessToken' = tokenFile.AccessToken
                   /\ userRefreshToken' = tokenFile.RefreshToken
                   /\ userExpiresAt' = tokenFile.ExpiresAt
              ELSE /\ userAccessToken' = ""
                   /\ userRefreshToken' = ""
                   /\ userExpiresAt' = ZeroTime
       /\ (BuiltOnElapsedFile /\ lastOp'.op = "GetUserAccessToken") =>
              /\ lastOp'.err = AuthRequired
              /\ lastOp'.net = 0
              /\ netCalls' = netCalls]_vars

\* a manager was constructed over a file with a refresh token and an elapsed
\* expiry and holds nothing
C29_Witness ==
    /\ BuiltOnElapsedFile
    /\ tokenFile.AccessToken # ""
    /\ tokenFile.RefreshToken # ""
    /\ userAccessToken = ""
    /\ userRefreshToken = ""
    /\ userExpiresAt = ZeroTime

\* the step is a successful code exchange whose response has no refresh token
ExchangeWithoutRefresh ==
    /\ lastOp'.op = "ExchangeCodeForToken"
    /\ lastOp'.net = 1
    /\ lastOp'.err = ""
    /\ lastOp'.resp.refresh = ""

\* the record is what an exchange without a refresh token stored, and its
\* access token has expired
ExpiredWithoutRefresh ==
    /\ lastExch # NoExch
    /\ lastExch.refresh = ""
    /\ userAccessToken = lastExch.access
    /\ ~Before(now, userExpiresAt)

\* C30: a successful code exchange whose response carries no refresh token
\* clears the refresh token held before it, so that once the new access
\* token has expired GetUserAccessToken fails with authorization-required
\* instead of refreshing.
C30_ExchangeClearsRefresh ==
    [][/\ ExchangeWithoutRefresh => userRefreshToken' = ""
       /\ (ExpiredWithoutRefresh /\ lastOp'.op = "GetUserAccessToken") =>
              /\ lastOp'.err = AuthRequired
              /\ lastOp'.net = 0
              /\ netCalls' = netCalls]_vars

\* the manager held a refresh token, exchanged a code for a token without
\* one, and after that token's expiry was told to authorize again
C30_Witness ==
    /\ lastOp.op = "GetUserAccessToken"
    /\ lastOp.err = AuthRequired
    /\ ExpiredWithoutRefresh
    /\ lastExch.expires_in = HourExpiresIn
    /\ userRefreshToken = ""

(* ---------------------------------------------------------------------- *)
(* The callback's state after the exchange                                  *)
(* ---------------------------------------------------------------------- *)

\* the step is a callback that reached ValidateState with an acceptable state
ValidatedCallback ==
    /\ IsCallback
    /\ Acceptable(lastOp'.st)
    /\ (lastOp'.op = "OAuthCallback" =>
            lastOp'.code # "" /\ lastOp'.err # "access_denied")

\* C31: once ValidateState has succeeded for a callback's state the state
\* stays consumed whatever the code exchange after it does: it is gone from
\* the table also when the exchange fails (empty code, rejected, malformed
\* response), and a later callback presenting it is rejected without a
\* token request.
C31_ConsumedDespiteFailedExchange ==
    [][/\ ValidatedCallback =>
              /\ lastOp'.st \in consumed'
              /\ lastOp'.st \notin DOMAIN stateStore'
       /\ (IsCallback /\ lastOp'.st \in consumed) =>
              /\ ~lastOp'.ok
              /\ lastOp'.net = 0
              /\ netCalls' = netCalls
              /\ UNCHANGED <<recordVars, tokenFile>>]_vars

\* the only state ever validated went with an exchange that failed, and the
\* callback that presented it again was rejected
C31_Witness ==
    /\ lastOp.op = "HandleOAuthCallback"
    /\ lastOp.err = "invalid state"
    /\ lastOp.st \in consumed
    /\ Cardinality(consumed) = 1
    /\ netCalls = 1
    /\ userAccessToken = ""

\* the step is an HTTP callback that carries an OAuth error parameter or no code
RejectedEarly ==
    /\ lastOp'.op = "OAuthCallback"
    /\ (lastOp'.err = "access_denied" \/ lastOp'.code = "")

\* the last call was such a callback, and the state it presented is acceptable
RejectedEarlyWith(s) ==
    /\ lastOp.op = "OAuthCallback"
    /\ (lastOp.err = "access_denied" \/ lastOp.code = "")
    /\ lastOp.st = s
    /\ Acceptable(s)

\* C32: the HTTP callback handler rejects a callback with an OAuth error
\* parameter or an empty code before it looks at the state: the state table
\* is unchanged, no token request is sent, and the presented state is still
\* accepted by the callback that follows.
C32_RejectedBeforeState ==
    [][/\ RejectedEarly =>
              /\ ~lastOp'.ok
              /\ lastOp'.net = 0
              /\ netCalls' = netCalls
              /\ UNCHANGED <<stateStore, consumed, recordVars, tokenFile>>
       /\ \A s \in StateTokens :
              (RejectedEarlyWith(s) /\ IsCallback /\ lastOp'.st = s
                   /\ lastOp'.code # "" /\ lastOp'.err # "access_denied") =>
                  /\ lastOp'.err # "invalid state"
                  /\ s \in consumed']_vars

\* a callback with an error parameter, a code and a pending state was
\* rejected and the state is still in the table
C32_Witness ==
    /\ lastOp.op = "OAuthCallback"
    /\ lastOp.err = "access_denied"
    /\ lastOp.code = "code"
    /\ lastOp.st \in DOMAIN stateStore
    /\ lastOp.st \notin consumed
    /\ userAccessToken # ""

(* ---------------------------------------------------------------------- *)
(* Other tokens' entries                                                    *)
(* ---------------------------------------------------------------------- *)

\* the entries of the table that are not past their expiry and do not belong
\* to token s
LiveOthers(s) ==
    {x \in DOMAIN stateStore \ {s} : ~After(now, stateStore[x].ExpiresAt)}

\* C33: ValidateState(s), whether it succeeds or fails, and GenerateState
\* never remove or alter the entry of another token that has not expired:
\* the only entries they delete are the one of s and entries past their expiry.
C33_OtherEntriesKept ==
    [][IsTableCall =>
          /\ \A x \in LiveOthers(lastOp'.st) :
                 /\ x \in DOMAIN stateStore'
                 /\ stateStore'[x] = stateStore[x]
          /\ \A x \in DOMAIN stateStore \ DOMAIN stateStore' :
                 \/ x = lastOp'.st /\ lastOp'.op = "ValidateState"
                 \/ After(now, stateStore[x].ExpiresAt)]_vars

\* a token was validated some time after another one was issued, and the
\* other one's entry is still in the table as it was issued
C33_Witness ==
    /\ lastOp.op = "ValidateState"
    /\ lastOp.ok
    /\ \E x \in DOMAIN stateStore :
           /\ x # lastOp.st
           /\ now > issuedAt[x]
           /\ stateStore[x] = [CreatedAt |-> issuedAt[x],
                               ExpiresAt |-> issuedAt[x] + StateTTL]


(* ---------------------------------------------------------------------- *)
(* Sending an alert                                                         *)
(* ---------------------------------------------------------------------- *)

\* the token fields and the token file, as one value
CurRecord ==
    [a |-> userAccessToken, r |-> userRefreshToken, e |-> userExpiresAt,
     f |-> tokenFile]

\* one call of GetUserAccessToken on record rec at instant t: the record after
\* it, the error it returns, and the refresh requests it sent (out and sv are
\* the token endpoint's answer and the outcome of the save)
TokenCall(rec, t, out, sv) ==
    IF rec.a # "" /\ Before(t, rec.e)
    THEN [rec |-> rec, err |-> "", net |-> 0]
    ELSE IF rec.r = ""
    THEN [rec |-> rec, net |-> 0,
          err |-> "no valid user access token available, authorization required"]
    ELSE IF RefreshErr(out) # ""
    THEN [rec |-> rec, err |-> RefreshErr(out), net |-> 1]
    ELSE LET newRefresh == IF out.refresh # "" THEN out.refresh ELSE rec.r IN
         [rec |-> [a |-> out.access, r |-> newRefresh,
                   e |-> ExpiryOf(t, out.expires_in),
                   f |-> SaveTokens(rec.f, out.access, newRefresh,
                                    ExpiryOf(t, out.expires_in), sv)],
          err |-> "", net |-> 1]

\* the token endpoint refuses the request
Refusal == [kind |-> "status", access |-> "", refresh |-> "", expires_in |-> 0]

\* how the delivery goes on once the user token is at hand: the lookup finds
\* no user, the client-credentials request is refused, the chat message is
\* refused, or all three succeed
ApiOutcomes == {"ok", "nouser", "nochatbot", "nopost"}

\* the requests: a complete one, a body that does not parse, and one without
\* an email or without a message
Requests ==
    { [bind |-> TRUE, email |-> "u", message |-> "m"],
      [bind |-> FALSE, email |-> "", message |-> ""],
      [bind |-> TRUE, email |-> "", message |-> "m"],
      [bind |-> TRUE, email |-> "u", message |-> ""] }

\* the token endpoint's answers to the refresh of the authorization check: a
\* refusal, a grant, a grant without tokens, and a grant that is no longer
\* valid when it arrives; none when the check sends no request
AuthAnswers ==
    IF CachedValid \/ userRefreshToken = "" THEN {NoBody}
    ELSE { Refusal,
           [kind |-> "ok", access |-> "X", refresh |-> "RX", expires_in |-> HourExpiresIn],
           [kind |-> "ok", access |-> "", refresh |-> "", expires_in |-> HourExpiresIn],
           [kind |-> "ok", access |-> "X", refresh |-> "", expires_in |-> ExpiryMargin] }

\* the token endpoint's answers to a second refresh within one call
SecondAnswers ==
    { Refusal,
      [kind |-> "ok", access |-> "Y", refresh |-> "", expires_in |-> HourExpiresIn] }

\* the inputs of one alert-sending call: the request, the token endpoint's
\* answers to the refresh of the authorization check (out, sv) and to the
\* refresh of the lookup (out2, sv2), and the course of the delivery (api)
\* (an input that the call cannot come to read is held at one value: the
\* course of the delivery when the email is missing, the save when nothing is
\* stored, the second answer when the first one gave a usable token or none)
AlertInputs ==
    { in \in [req : Requests, out : AuthAnswers, sv : {"ok", "fail"},
              out2 : SecondAnswers, sv2 : {"ok"}, api : ApiOutcomes] :
         /\ (in.req.email = "" => in.api = "ok" /\ in.out2 = Refusal)
         /\ (in.out.kind # "ok" => in.sv = "ok" /\ in.out2 = Refusal)
         /\ (in.out.access # "" /\ in.out.expires_in > ExpiryMargin =>
                 in.out2 = Refusal) }

\* a call that did not get as far as the authorization check
NotChecked(err) ==
    [rec |-> CurRecord, err |-> err, net |-> 0, auth |-> "none",
     lookup |-> 0, post |-> 0]

\* a call whose authorization check (tok) returned false
NotAuthorized(tok, err) ==
    [rec |-> tok.rec, err |-> err, net |-> tok.net, auth |-> "false",
     lookup |-> 0, post |-> 0]

\* a call that was rejected after its authorization check (tok) returned true
Rejected(tok, err) ==
    [rec |-> tok.rec, err |-> err, net |-> tok.net, auth |-> "true",
     lookup |-> 0, post |-> 0]

\* ZoomService.SendAlertWithUserToken and SendMessageByEmail after the
\* authorization check tok: GetUserByEmail fetches the user token again and
\* looks the user up, SendChatMessage fetches a chatbot token and posts
Deliver(tok, in) ==
    LET tok2 == TokenCall(tok.rec, now, in.out2, in.sv2)
        noCreds == creds.id = "" \/ creds.secret = ""
        base == [rec |-> tok2.rec, err |-> "", net |-> tok.net + tok2.net,
                 auth |-> "true", lookup |-> 0, post |-> 0]
    IN  IF tok2.err # ""
        THEN [base EXCEPT !.err = "failed to get user with user token"]
        ELSE IF in.api = "nouser"
        THEN [base EXCEPT !.err = "failed to get user with user token",
                          !.lookup = 1]
        ELSE IF noCreds
        THEN [base EXCEPT !.err = "failed to send chat message with user token",
                          !.lookup = 1]
        ELSE IF in.api = "nochatbot"
        THEN [base EXCEPT !.err = "failed to send chat message with user token",
                          !.lookup = 1, !.net = @ + 1]
        ELSE [base EXCEPT !.err = IF in.api = "ok" THEN ""
                                  ELSE "failed to send chat message with user token",
                          !.lookup = 1, !.post = 1, !.net = @ + 1]

\* a delivery that goes ahead whatever the authorization check returned
DeliverIfAuthorized_Unchecked(tok, in, err) == Deliver(tok, in)

\* Deliver when the authorization check returned true, the given error otherwise
DeliverIfAuthorized(tok, in, err) ==
    IF tok.err # "" THEN NotAuthorized(tok, err) ELSE Deliver(tok, in)

\* the call op made with inputs in and outcome res: the token fields and the
\* file are left as the call's token lookups left them
Sent(op, in, res) ==
    /\ netCalls + res.net <= MaxNet
    /\ netCalls' = netCalls + res.net
    /\ userAccessToken' = res.rec.a
    /\ userRefreshToken' = res.rec.r
    /\ userExpiresAt' = res.rec.e
    /\ tokenFile' = res.rec.f
    /\ lastExch' = IF res.rec = CurRecord THEN lastExch ELSE NoExch
    /\ lastOp' = [NoOp EXCEPT !.op = op, !.ok = (res.err = ""), !.err = res.err,
                              !.net = res.net, !.resp = in.out,
                              !.auth = res.auth, !.lookup = res.lookup,
                              !.post = res.post]
    /\ UNCHANGED <<envVars, tableVars>>

\* AlertHandler.SendAlert: POST /alert
HandlerSendAlert(in) ==
    LET tok == TokenCall(CurRecord, now, in.out, in.sv)
        sent == DeliverIfAuthorized(tok, in, "User is not authorized")
    IN  Sent("AlertHandler.SendAlert", in,
             IF tok.err # "" THEN sent
             ELSE IF ~in.req.bind THEN Rejected(tok, "Invalid request format")
             ELSE IF in.req.email = "" THEN Rejected(tok, "Email is required")
             ELSE IF in.req.message = "" THEN Rejected(tok, "Message is required")
             ELSE IF sent.err # "" THEN [sent EXCEPT !.err = "Failed to send alert"]
             ELSE sent)

\* ZoomAlertModule.SendAlert(email, message)
ModuleSendAlert(in) ==
    LET tok == TokenCall(CurRecord, now, in.out, in.sv) IN
    Sent("ZoomAlertModule.SendAlert", in,
         IF in.req.email = "" THEN NotChecked("email is required")
         ELSE IF in.req.message = "" THEN NotChecked("message is required")
         ELSE DeliverIfAuthorized(tok, in, "user authorization required"))

\* ZoomAlertModule.SendMessage(email, message)
ModuleSendMessage(in) ==
    LET tok == TokenCall(CurRecord, now, in.out, in.sv)
        sent == DeliverIfAuthorized(tok, in, "user is not authorized")
    IN  Sent("ZoomAlertModule.SendMessage", in,
             IF tok.err # "" THEN sent
             ELSE IF in.req.email = "" THEN Rejected(tok, "email is required")
             ELSE IF sent.err # "" THEN [sent EXCEPT !.err = "failed to send message"]
             ELSE sent)

\* a manager that never exchanged a code, or one that holds an expired access
\* token and a refresh token
InitAlert == InitState \/ InitHeld

\* the clock moves by the lifetime of a stored token
AlertSteps == {HourExpiresIn - ExpiryMargin}

NextAlert ==
    \/ \E d \in AlertSteps : Tick(d)
    \/ \E out \in FlowAnswers :
           ExchangeCodeForToken("code", out, IF ExchangeErr(out) = "" THEN "ok" ELSE "none")
    \/ \E in \in AlertInputs : HandlerSendAlert(in)
    \/ \E in \in AlertInputs : ModuleSendAlert(in)
    \/ \E in \in AlertInputs : ModuleSendMessage(in)

\* alerts sent through the handler and the module while tokens come and go
SpecAlert == InitAlert /\ [][NextAlert]_vars

SendOps ==
    {"AlertHandler.SendAlert", "ZoomAlertModule.SendAlert",
     "ZoomAlertModule.SendMessage"}

\* the results with which the three operations report a missing authorization
NotAuthorizedResults ==
    {"User is not authorized", "user authorization required",
     "user is not authorized"}

\* IsUserAuthorized is false in the step: the token lookup, made on the fields
\* as they were before the call with the answer the call received, fails
Refused == TokenCall(CurRecord, now, lastOp'.resp, "ok").err # ""

LifetimeGap == HourExpiresIn - ExpiryMargin - StateTTL

\* the clock first moves by that gap, or by a second less, then by the
\* lifetime of a state entry, then second by second: an entry issued after
\* the first step reaches its expiresAt when, or a second before, an access
\* token stored at the start reaches its expiry
BoundarySteps ==
    CASE ticks = 0 -> {LifetimeGap - 1, LifetimeGap}
      [] ticks = 1 -> {StateTTL}
      [] OTHER -> {1}

\* a grant of an hour
HourGrant ==
    [kind |-> "ok", access |-> "X", refresh |-> "RX", expires_in |-> HourExpiresIn]

\* the answer to the refresh of a lookup: a refusal, none when the lookup
\* sends no request
LookupAnswers ==
    IF CachedValid \/ userRefreshToken = "" THEN {NoBody} ELSE {Refusal}

NextBoundary ==
    \/ \E d \in BoundarySteps : Tick(d)
    \/ GenerateState
    \/ \E s \in StateTokens : ValidateState(s)
    \/ ExchangeCodeForToken("code", HourGrant, "ok")
    \/ \E out \in LookupAnswers : GetUserAccessToken(out, "ok")

\* state tokens and access tokens issued, aging and used side by side
SpecBoundary == InitState /\ [][NextBoundary]_vars

\* the step is a call that sweeps the table
IsSweepingCall ==
    \/ lastOp'.op = "GenerateState"
    \/ lastOp'.op = "ValidateState" /\ lastOp'.st # EmptyState

\* C35: the two expiry comparisons differ at the boundary instant.
\* GetUserAccessToken answers from its cache exactly when it holds an access
\* token and now is strictly before the expiry; at now = expiry it does not.
\* ValidateState accepts an entry exactly when now is not after its expiresAt
\* (at now = expiresAt it is accepted), and the sweep before a GenerateState
\* or ValidateState call keeps the other entries up to now = expiresAt and
\* removes them only when now is strictly after.
C35_BoundaryInstant ==
    [][/\ lastOp'.op = "GetUserAccessToken" =>
              /\ (userAccessToken # "" /\ now < userExpiresAt) =>
                     /\ lastOp'.ok
                     /\ lastOp'.val = userAccessToken
                     /\ lastOp'.net = 0
              /\ (userAccessToken # "" /\ now >= userExpiresAt) =>
                     \/ lastOp'.net = 1
                     \/ ~lastOp'.ok /\ userRefreshToken = ""
       /\ \A s \in DOMAIN stateStore :
              (lastOp'.op = "ValidateState" /\ lastOp'.st = s) =>
                  /\ now <= stateStore[s].ExpiresAt => lastOp'.ok
                  /\ now > stateStore[s].ExpiresAt => ~lastOp'.ok
                  /\ s \notin DOMAIN stateStore'
       /\ \A x \in DOMAIN stateStore :
              (IsSweepingCall /\ lastOp'.st # x) =>
                  /\ now <= stateStore[x].ExpiresAt =>
                         x \in DOMAIN stateStore' /\ stateStore'[x] = stateStore[x]
                  /\ now > stateStore[x].ExpiresAt => x \notin DOMAIN stateStore']_vars

\* a token was validated exactly ten minutes after it was issued while
\* another entry of the same age stayed in the table; at the same instant
\* the access token reached its expiry and a lookup asked for a refresh
C35_Witness ==
    /\ lastOp.op = "ValidateState"
    /\ lastOp.ok
    /\ now = issuedAt[lastOp.st] + StateTTL
    /\ \E x \in DOMAIN stateStore : now = stateStore[x].ExpiresAt
    /\ userAccessToken # ""
    /\ now = userExpiresAt
    /\ lastExch.t0 + (HourExpiresIn - ExpiryMargin) = now
    /\ netCalls = 2

====
